---- MODULE Spec2Model ----
(***************************************************************************)
(* Hybrid student-risk decision engine: the rule scorer                    *)
(* (logic/decision_rules.py), the reconciliation policy, the               *)
(* recommendation synthesizer and the pipeline orchestrator                *)
(* (engine/dss_engine_hybrid.py, class HybridStudentDSS).                  *)
(*                                                                         *)
(* Conventions                                                             *)
(*   - a probability p in [0,1] is the integer p * 10000 (ProbScale), so   *)
(*     0.65 is 6500, 0.4 is 4000 and 0.7 is 7000;                          *)
(*   - a student record is [shape, f]: shape "dict" is a Python mapping,   *)
(*     shape "series" a pandas row; f maps the field names it holds to     *)
(*     their values, a field missing from DOMAIN f is a missing key;       *)
(*   - a call that can raise returns [ok, val, key]: ok = FALSE is a       *)
(*     KeyError carrying the missing key.                                  *)
(***************************************************************************)
EXTENDS Integers, Sequences, FiniteSets, TLC

VARIABLES
    csv,            \* the file at dataset_path (environment, fixed per engine)
    disk,           \* the file at model_path: "absent", "corrupt" or a model id
    data,           \* self.data: None or the loaded frame with derived columns
    model,          \* self.model: "None", "unfitted" or a fitted model id
    model_trained,  \* self.model_trained
    pc,             \* position inside run(): "idle" when no run is in progress
    trainNew,       \* run()'s train_new_model argument of the run in progress
    trace,          \* the calls made by the current or most recent run()
    last,           \* the most recent call: its name, outcome and return value
    ev              \* inputs and results of the last pure-function evaluation

vars == <<csv, disk, data, model, model_trained, pc, trainNew, trace, last, ev>>

engineVars == <<csv, disk, data, model, model_trained, pc, trainNew, trace, last>>

----------------------------------------------------------------------------
(* Values *)

High == "High Risk"
Moderate == "Moderate Risk"
Low == "Low Risk"

Tiers == {High, Moderate, Low}

\* Low < Moderate < High
TierRank(t) == IF t = High THEN 2 ELSE IF t = Moderate THEN 1 ELSE 0

ProbScale == 100 * 100

Dict(f) == [shape |-> "dict", f |-> f]
Series(f) == [shape |-> "series", f |-> f]

IsDict(row) == row.shape = "dict"
Has(row, k) == k \in DOMAIN row.f

\* dict.get(k, default) and Series.get(k, default)
get(row, k, default) == IF Has(row, k) THEN row.f[k] ELSE default

Ok(v) == [ok |-> TRUE, val |-> v, key |-> "-"]
KeyError(k) == [ok |-> FALSE, val |-> 0, key |-> k]

\* row[k] on a pandas row raises KeyError(k) when k is no label of it; the
\* first of the keys read, in order, that is missing ("-" when none is).
RECURSIVE FirstMissing(_, _)
FirstMissing(row, keys) ==
    IF keys = <<>> THEN "-"
    ELSE IF ~Has(row, Head(keys)) THEN Head(keys)
    ELSE FirstMissing(row, Tail(keys))

----------------------------------------------------------------------------
(* Rule scorer: logic/decision_rules.py *)

\* aps_adjustment with the failing band reaching up to G2 = 10
aps_adjustment_wide(row) ==
    IF ~IsDict(row) /\ ~Has(row, "G2") THEN KeyError("G2")
    ELSE LET g2 == get(row, "G2", 0) IN
         IF g2 <= 10 THEN Ok(4)
         ELSE IF 10 <= g2 /\ g2 <= 11 THEN Ok(2)
         ELSE Ok(0)

aps_adjustment(row) ==
    IF ~IsDict(row) /\ ~Has(row, "G2") THEN KeyError("G2")
    ELSE LET g2 == get(row, "G2", 0) IN
         IF g2 < 10 THEN Ok(4)
         ELSE IF 10 <= g2 /\ g2 <= 11 THEN Ok(2)
         ELSE Ok(0)

\* attendance_risk with the upper band starting at absences = 15
attendance_risk_inclusive(row) ==
    IF ~IsDict(row) /\ ~Has(row, "absences") THEN KeyError("absences")
    ELSE LET absences == get(row, "absences", 0) IN
         IF absences >= 15 THEN Ok(3)
         ELSE IF absences >= 5 THEN Ok(1)
         ELSE Ok(0)

attendance_risk(row) ==
    IF ~IsDict(row) /\ ~Has(row, "absences") THEN KeyError("absences")
    ELSE LET absences == get(row, "absences", 0) IN
         IF absences > 15 THEN Ok(3)
         ELSE IF absences >= 5 THEN Ok(1)
         ELSE Ok(0)

\* family_support_risk with the parents' average truncated to an integer
family_support_risk_floor(row) ==
    LET miss == FirstMissing(row, <<"famsup", "Medu", "Fedu">>) IN
    IF ~IsDict(row) /\ miss # "-" THEN KeyError(miss)
    ELSE LET famsup == get(row, "famsup", "yes")
             medu == get(row, "Medu", 2)
             fedu == get(row, "Fedu", 2)
             s1 == IF famsup = "no" THEN 2 ELSE 0
             s2 == IF (medu + fedu) \div 2 <= 2 THEN 1 ELSE 0
         IN Ok(s1 + s2)

\* parent_avg = (medu + fedu) / 2 is a true (float) division: parent_avg <= 2
\* exactly when medu + fedu <= 4.
family_support_risk(row) ==
    LET miss == FirstMissing(row, <<"famsup", "Medu", "Fedu">>) IN
    IF ~IsDict(row) /\ miss # "-" THEN KeyError(miss)
    ELSE LET famsup == get(row, "famsup", "yes")
             medu == get(row, "Medu", 2)
             fedu == get(row, "Fedu", 2)
             s1 == IF famsup = "no" THEN 2 ELSE 0
             s2 == IF medu + fedu <= 2 * 2 THEN 1 ELSE 0
         IN Ok(s1 + s2)

\* avg_alcohol = (dalc + walc) / 2 is a true division: avg_alcohol >= 4
\* exactly when dalc + walc >= 8.
lifestyle_risk(row) ==
    LET miss == FirstMissing(row, <<"Dalc", "Walc", "goout", "studytime">>) IN
    IF ~IsDict(row) /\ miss # "-" THEN KeyError(miss)
    ELSE LET dalc == get(row, "Dalc", 1)
             walc == get(row, "Walc", 1)
             goout == get(row, "goout", 2)
             studytime == get(row, "studytime", 2)
             s1 == IF dalc + walc >= 2 * 4 THEN 2 ELSE 0
             s2 == IF goout >= 4 THEN 1 ELSE 0
             s3 == IF studytime = 1 THEN 2 ELSE 0
         IN Ok(s1 + s2 + s3)

\* compute_total_risk leaving the lifestyle sub-score out of the sum
compute_total_risk_nolrs(row) ==
    LET aps == aps_adjustment(row)
        ars == attendance_risk(row)
        fsr == family_support_risk(row)
        lrs == lifestyle_risk(row)
    IN IF ~aps.ok THEN aps
       ELSE IF ~ars.ok THEN ars
       ELSE IF ~fsr.ok THEN fsr
       ELSE IF ~lrs.ok THEN lrs
       ELSE Ok(aps.val + ars.val + fsr.val)

compute_total_risk(row) ==
    LET aps == aps_adjustment(row)
        ars == attendance_risk(row)
        fsr == family_support_risk(row)
        lrs == lifestyle_risk(row)
    IN IF ~aps.ok THEN aps
       ELSE IF ~ars.ok THEN ars
       ELSE IF ~fsr.ok THEN fsr
       ELSE IF ~lrs.ok THEN lrs
       ELSE Ok(aps.val + ars.val + fsr.val + lrs.val)

\* classify_risk with the High threshold made strict
classify_risk_strict(score) ==
    IF score > 8 THEN High
    ELSE IF score >= 4 THEN Moderate
    ELSE Low

classify_risk(score) ==
    IF score >= 8 THEN High
    ELSE IF score >= 4 THEN Moderate
    ELSE Low

----------------------------------------------------------------------------
(* Recommendation synthesizer: logic/decision_rules.py *)

\* A recommendation is [id, pct]: id names the message text, pct is the
\* percentage (in tenths) the ML note carries and 0 for every other message.
Msg(id) == [id |-> id, pct |-> 0]

\* recommend_intervention asking for monitoring from absences = 5 on
recommend_intervention_ge5(row, risk_level) ==
    LET absences == get(row, "absences", 0)
        failures == get(row, "failures", 0)
        studytime == get(row, "studytime", 2)
        famsup == get(row, "famsup", "yes")
        g2 == get(row, "G2", 10)
        r1 == IF absences > 15 THEN <<Msg("critical_attendance")>>
              ELSE IF absences >= 5 THEN <<Msg("monitor_attendance")>>
              ELSE <<>>
        r2 == IF failures > 1 THEN <<Msg("remediation")>>
              ELSE IF failures = 1 THEN <<Msg("academic_support")>>
              ELSE <<>>
        r3 == IF studytime = 1 THEN <<Msg("study_skills")>> ELSE <<>>
        r4 == IF g2 < 10 THEN <<Msg("tutoring")>> ELSE <<>>
        r5 == IF famsup = "no" THEN <<Msg("parental_engagement")>> ELSE <<>>
        factors == r1 \o r2 \o r3 \o r4 \o r5
    IN IF risk_level = High
       THEN factors \o <<Msg("urgent_counselor"), Msg("contact_guardians")>>
       ELSE IF risk_level = Moderate
       THEN factors \o <<Msg("regular_monitoring")>>
       ELSE IF factors = <<>> THEN <<Msg("continue_trajectory")>>
       ELSE factors

\* recommend_intervention closing every Low Risk list with the default message
recommend_intervention_always_default(row, risk_level) ==
    LET absences == get(row, "absences", 0)
        failures == get(row, "failures", 0)
        studytime == get(row, "studytime", 2)
        famsup == get(row, "famsup", "yes")
        g2 == get(row, "G2", 10)
        r1 == IF absences > 15 THEN <<Msg("critical_attendance")>>
              ELSE IF absences > 5 THEN <<Msg("monitor_attendance")>>
              ELSE <<>>
        r2 == IF failures > 1 THEN <<Msg("remediation")>>
              ELSE IF failures = 1 THEN <<Msg("academic_support")>>
              ELSE <<>>
        r3 == IF studytime = 1 THEN <<Msg("study_skills")>> ELSE <<>>
        r4 == IF g2 < 10 THEN <<Msg("tutoring")>> ELSE <<>>
        r5 == IF famsup = "no" THEN <<Msg("parental_engagement")>> ELSE <<>>
        factors == r1 \o r2 \o r3 \o r4 \o r5
    IN IF risk_level = High
       THEN factors \o <<Msg("urgent_counselor"), Msg("contact_guardians")>>
       ELSE IF risk_level = Moderate
       THEN factors \o <<Msg("regular_monitoring")>>
       ELSE factors \o <<Msg("continue_trajectory")>>

\* recommend_intervention without the default message
recommend_intervention_nodefault(row, risk_level) ==
    LET absences == get(row, "absences", 0)
        failures == get(row, "failures", 0)
        studytime == get(row, "studytime", 2)
        famsup == get(row, "famsup", "yes")
        g2 == get(row, "G2", 10)
        r1 == IF absences > 15 THEN <<Msg("critical_attendance")>>
              ELSE IF absences > 5 THEN <<Msg("monitor_attendance")>>
              ELSE <<>>
        r2 == IF failures > 1 THEN <<Msg("remediation")>>
              ELSE IF failures = 1 THEN <<Msg("academic_support")>>
              ELSE <<>>
        r3 == IF studytime = 1 THEN <<Msg("study_skills")>> ELSE <<>>
        r4 == IF g2 < 10 THEN <<Msg("tutoring")>> ELSE <<>>
        r5 == IF famsup = "no" THEN <<Msg("parental_engagement")>> ELSE <<>>
        factors == r1 \o r2 \o r3 \o r4 \o r5
    IN IF risk_level = High
       THEN factors \o <<Msg("urgent_counselor"), Msg("contact_guardians")>>
       ELSE IF risk_level = Moderate
       THEN factors \o <<Msg("regular_monitoring")>>
       ELSE factors

\* Both branches of the isinstance test read every field with .get, so a
\* mapping and a row take the same defaults here.
recommend_intervention(row, risk_level) ==
    LET absences == get(row, "absences", 0)
        failures == get(row, "failures", 0)
        studytime == get(row, "studytime", 2)
        famsup == get(row, "famsup", "yes")
        g2 == get(row, "G2", 10)
        r1 == IF absences > 15 THEN <<Msg("critical_attendance")>>
              ELSE IF absences > 5 THEN <<Msg("monitor_attendance")>>
              ELSE <<>>
        r2 == IF failures > 1 THEN <<Msg("remediation")>>
              ELSE IF failures = 1 THEN <<Msg("academic_support")>>
              ELSE <<>>
        r3 == IF studytime = 1 THEN <<Msg("study_skills")>> ELSE <<>>
        r4 == IF g2 < 10 THEN <<Msg("tutoring")>> ELSE <<>>
        r5 == IF famsup = "no" THEN <<Msg("parental_engagement")>> ELSE <<>>
        factors == r1 \o r2 \o r3 \o r4 \o r5
    IN IF risk_level = High
       THEN factors \o <<Msg("urgent_counselor"), Msg("contact_guardians")>>
       ELSE IF risk_level = Moderate
       THEN factors \o <<Msg("regular_monitoring")>>
       ELSE IF factors = <<>> THEN <<Msg("continue_trajectory")>>
       ELSE factors

----------------------------------------------------------------------------
(* Forward-chaining rule engine: logic/desicion_rules.py (the same code is   *)
(* in logic/experta_rules.py). One StudentFact is declared per evaluation;   *)
(* a rule is activated when its patterns match that fact and fires once.     *)

\* the fact evaluate_risk declares; the two averages are true divisions, kept
\* here as the sums they halve (parent_edu = parent_edu2 / 2)
StudentFact(f) ==
    [G2 |-> f["G2"], absences |-> f["absences"], famsup |-> f["famsup"],
     parent_edu2 |-> f["Medu"] + f["Fedu"],
     avg_alcohol2 |-> f["Dalc"] + f["Walc"],
     goout |-> f["goout"], studytime |-> f["studytime"]]

\* the fields evaluate_risk reads with row[...], in the order it reads them
FactFields ==
    <<"Medu", "Fedu", "Dalc", "Walc", "G2", "absences", "famsup", "goout",
      "studytime">>

RuleNames ==
    {"critical_academic_performance", "concerning_academic_performance",
     "excessive_absences", "moderate_absences", "no_family_support",
     "low_parent_education", "high_alcohol_consumption", "frequent_going_out",
     "very_low_study_time", "critical_combination", "no_support_struggling"}

\* Matches with the moderate-absences band starting above 5
Matches_strict(rule, fact) ==
    CASE rule = "critical_academic_performance" -> fact.G2 < 10
      [] rule = "concerning_academic_performance" -> 10 <= fact.G2 /\ fact.G2 <= 11
      [] rule = "excessive_absences" -> fact.absences > 15
      [] rule = "moderate_absences" -> 5 < fact.absences /\ fact.absences <= 15
      [] rule = "no_family_support" -> fact.famsup = "no"
      [] rule = "low_parent_education" -> fact.parent_edu2 <= 2 * 2
      [] rule = "high_alcohol_consumption" -> fact.avg_alcohol2 >= 2 * 4
      [] rule = "frequent_going_out" -> fact.goout >= 4
      [] rule = "very_low_study_time" -> fact.studytime = 1
      [] rule = "critical_combination" -> fact.G2 < 10 /\ fact.absences > 15
      [] rule = "no_support_struggling" -> fact.famsup = "no" /\ fact.G2 < 12

\* the patterns of each @Rule
Matches(rule, fact) ==
    CASE rule = "critical_academic_performance" -> fact.G2 < 10
      [] rule = "concerning_academic_performance" -> 10 <= fact.G2 /\ fact.G2 <= 11
      [] rule = "excessive_absences" -> fact.absences > 15
      [] rule = "moderate_absences" -> 5 <= fact.absences /\ fact.absences <= 15
      [] rule = "no_family_support" -> fact.famsup = "no"
      [] rule = "low_parent_education" -> fact.parent_edu2 <= 2 * 2
      [] rule = "high_alcohol_consumption" -> fact.avg_alcohol2 >= 2 * 4
      [] rule = "frequent_going_out" -> fact.goout >= 4
      [] rule = "very_low_study_time" -> fact.studytime = 1
      [] rule = "critical_combination" -> fact.G2 < 10 /\ fact.absences > 15
      [] rule = "no_support_struggling" -> fact.famsup = "no" /\ fact.G2 < 12

\* the score a rule's body adds to: component and points ("-" and 0 for the
\* two rules that only append a recommendation)
RuleEffect(rule) ==
    CASE rule = "critical_academic_performance" -> [comp |-> "APS", pts |-> 4]
      [] rule = "concerning_academic_performance" -> [comp |-> "APS", pts |-> 2]
      [] rule = "excessive_absences" -> [comp |-> "ARS", pts |-> 3]
      [] rule = "moderate_absences" -> [comp |-> "ARS", pts |-> 1]
      [] rule = "no_family_support" -> [comp |-> "FSR", pts |-> 2]
      [] rule = "low_parent_education" -> [comp |-> "FSR", pts |-> 1]
      [] rule = "high_alcohol_consumption" -> [comp |-> "LRS", pts |-> 2]
      [] rule = "frequent_going_out" -> [comp |-> "LRS", pts |-> 1]
      [] rule = "very_low_study_time" -> [comp |-> "LRS", pts |-> 2]
      [] OTHER -> [comp |-> "-", pts |-> 0]

\* the agenda after declare: the rules whose patterns match the fact
Activations(fact) == {r \in RuleNames : Matches(r, fact)}

\* self.risk_scores after __init__ and after reset_state
ZeroScores == [APS |-> 0, ARS |-> 0, FSR |-> 0, LRS |-> 0]

\* the body of a scoring rule: self.risk_scores[comp] += pts
FireRule(risk_scores, rule) ==
    LET e == RuleEffect(rule) IN
    IF e.comp = "-" THEN risk_scores
    ELSE [risk_scores EXCEPT ![e.comp] = @ + e.pts]

\* engine.run(): every activation fires once; the scores after all of them
RECURSIVE FireAll(_, _)
FireAll(risk_scores, agenda) ==
    IF agenda = {} THEN risk_scores
    ELSE LET r == CHOOSE x \in agenda : TRUE IN
         FireAll(FireRule(risk_scores, r), agenda \ {r})

\* calculate_total_risk
calculate_total_risk(risk_scores) ==
    risk_scores.APS + risk_scores.ARS + risk_scores.FSR + risk_scores.LRS

\* determine_risk_level
determine_risk_level(risk_scores) ==
    LET total == calculate_total_risk(risk_scores) IN
    IF total >= 8 THEN High
    ELSE IF total >= 4 THEN Moderate
    ELSE Low

\* evaluate_risk(row): a new engine, reset_state, declare, run,
\* determine_risk_level; row[...] raises KeyError on a missing field
evaluate_risk(row) ==
    LET miss == FirstMissing(row, FactFields) IN
    IF miss # "-"
    THEN [ok |-> FALSE, key |-> miss, risk_level |-> "-", risk_scores |-> ZeroScores]
    ELSE LET scores == FireAll(ZeroScores, Activations(StudentFact(row.f))) IN
         [ok |-> TRUE, key |-> "-", risk_level |-> determine_risk_level(scores),
          risk_scores |-> scores]

----------------------------------------------------------------------------
(* Reconciliation policy: engine/dss_engine_hybrid.py *)

\* combine with the probability comparisons made inclusive
combine_inclusive(ml_prob, rule_score) ==
    IF ml_prob >= 6500 \/ rule_score >= 8 THEN High
    ELSE IF ml_prob >= 4000 \/ rule_score >= 4 THEN Moderate
    ELSE Low

\* combine requiring both detectors to agree before it escalates
combine_and(ml_prob, rule_score) ==
    IF ml_prob > 6500 /\ rule_score >= 8 THEN High
    ELSE IF ml_prob > 4000 /\ rule_score >= 4 THEN Moderate
    ELSE Low

\* combine testing the High score threshold for equality
combine_eq(ml_prob, rule_score) ==
    IF ml_prob > 6500 \/ rule_score = 8 THEN High
    ELSE IF ml_prob > 4000 \/ rule_score >= 4 THEN Moderate
    ELSE Low

\* hybrid_decision.combine(row), on the row's ML_Risk_Probability and RiskScore
combine(ml_prob, rule_score) ==
    IF ml_prob > 6500 \/ rule_score >= 8 THEN High
    ELSE IF ml_prob > 4000 \/ rule_score >= 4 THEN Moderate
    ELSE Low

\* the hybrid decision inlined in predict_single
final_level(ml_prob, rule_score) ==
    IF ml_prob > 6500 \/ rule_score >= 8 THEN High
    ELSE IF ml_prob > 4000 \/ rule_score >= 4 THEN Moderate
    ELSE Low

----------------------------------------------------------------------------
(* Risk classifier: sklearn's LogisticRegression, used as a black box.      *)
(* A fitted model is an id; fit and predict_proba are fixed deterministic   *)
(* functions of their inputs, as they are in the library.                   *)

Models == {"m1", "m2", "m3"}

required_features == <<"failures", "absences", "studytime", "G1", "G2">>

\* the probabilities a model can return, among them the values on and next
\* to the thresholds 0.4, 0.65 and 0.7
ProbLevels == <<0, 2000, 4000, 4001, 6500, 6501, 7000, 7004, 9350, 10000>>

ModelOffset(m) == IF m = "m1" THEN 0 ELSE IF m = "m2" THEN 3 ELSE 7

\* model.predict_proba(X)[i, 1] for the feature vector x of one record
predict_proba(m, x) ==
    ProbLevels[((x[1] + x[2] + x[3] + x[4] + x[5] + ModelOffset(m))
                   % Len(ProbLevels)) + 1]

\* y = (G3 < 10).astype(int)
Label(g3) == IF g3 < 10 THEN 1 ELSE 0

\* LogisticRegression.fit raises ValueError when y holds a single class
FitRaises(y) == Cardinality({y[i] : i \in DOMAIN y}) < 2

\* the model fit(X, y) produces
FitModel(X, y) ==
    IF 2 * Cardinality({i \in DOMAIN y : y[i] = 1}) >= Len(y) THEN "m1" ELSE "m2"

(* Doubles. A positive double is [m, e]: m its significant bits, most      *)
(* significant first (53 of them once rounded), and e the number of those   *)
(* bits that stand after the binary point: the value is m * 2^(-e).         *)

\* 2^n
RECURSIVE Pow2(_)
Pow2(n) ==
    IF n = 0 THEN 1
    ELSE LET h == Pow2(n \div 2) IN h * h * (IF n % 2 = 1 THEN 2 ELSE 1)

\* 2^n mod t
RECURSIVE Pow2Mod(_, _)
Pow2Mod(n, t) ==
    IF n = 0 THEN 1 % t
    ELSE LET h == Pow2Mod(n \div 2, t)
         IN (((h * h) % t) * (IF n % 2 = 1 THEN 2 ELSE 1)) % t

\* the number of zero bits between the binary point and the first one bit of
\* c / t, for 0 < c < t
LeadingZeros(c, t) == Cardinality({i \in 1 .. 30 : c <= (t - 1) \div Pow2(i)})

\* bit i after the binary point of c / t: the remainder of long division after
\* i - 1 bits is c * 2^(i - 1) mod t
QuotientBit(c, t, i) == IF 2 * ((c * Pow2Mod(i - 1, t)) % t) >= t THEN 1 ELSE 0

AnyOne(bits) == \E i \in DOMAIN bits : bits[i] = 1

\* the w bits of n, most significant first
Bits(n, w) == [i \in 1 .. w |-> (n \div Pow2(w - i)) % 2]

StripZeros(bits) ==
    IF AnyOne(bits)
    THEN SubSeq(bits,
                CHOOSE i \in DOMAIN bits :
                    bits[i] = 1 /\ \A j \in 1 .. i - 1 : bits[j] = 0,
                Len(bits))
    ELSE <<>>

RECURSIVE ToInt(_)
ToInt(bits) ==
    IF Len(bits) = 0 THEN 0
    ELSE IF Len(bits) = 1 THEN bits[1]
    ELSE LET h == Len(bits) \div 2
         IN ToInt(SubSeq(bits, 1, h)) * Pow2(Len(bits) - h)
            + ToInt(SubSeq(bits, h + 1, Len(bits)))

\* bits + 1
Increment(bits) ==
    IF \A i \in DOMAIN bits : bits[i] = 1
    THEN <<1>> \o [i \in DOMAIN bits |-> 0]
    ELSE LET last0 == CHOOSE i \in DOMAIN bits :
                          bits[i] = 0 /\ \A j \in i + 1 .. Len(bits) : bits[j] = 1
         IN [i \in DOMAIN bits |->
                IF i < last0 THEN bits[i] ELSE IF i = last0 THEN 1 ELSE 0]

\* round to nearest, ties to even: keep are the bits kept, first the first
\* bit dropped, later whether a later dropped bit is set
RoundToEven(keep, first, later, e) ==
    IF first = 1 /\ (later \/ keep[Len(keep)] = 1)
    THEN LET up == Increment(keep) IN
         IF Len(up) > Len(keep)
         THEN [m |-> SubSeq(up, 1, Len(keep)), e |-> e - 1]
         ELSE [m |-> up, e |-> e]
    ELSE [m |-> keep, e |-> e]

\* the exact value bits * 2^(-e) as a double
ToDouble(bits, e) ==
    IF Len(bits) <= 53 THEN [m |-> bits, e |-> e]
    ELSE RoundToEven(SubSeq(bits, 1, 53), bits[54],
                     AnyOne(SubSeq(bits, 55, Len(bits))),
                     e - (Len(bits) - 53))

\* the double c / t, for 0 < c < t
Divide(c, t) ==
    LET z == LeadingZeros(c, t)
    IN RoundToEven([i \in 1 .. 53 |-> QuotientBit(c, t, z + i)],
                   QuotientBit(c, t, z + 54),
                   (c * Pow2Mod(z + 54, t)) % t # 0,
                   z + 53)

\* the exact product bits * k, in three limbs of 20 bits
Times(bits, k) ==
    LET n == Len(bits)
        padded == [i \in 1 .. 60 |-> IF i <= 60 - n THEN 0 ELSE bits[i - (60 - n)]]
        lo == ToInt(SubSeq(padded, 41, 60)) * k
        mid == ToInt(SubSeq(padded, 21, 40)) * k + lo \div Pow2(20)
        hi == ToInt(SubSeq(padded, 1, 20)) * k + mid \div Pow2(20)
    IN StripZeros(Bits(hi, 30) \o Bits(mid % Pow2(20), 20)
                  \o Bits(lo % Pow2(20), 20))

\* the integer nearest to m * 2^(-e), ties to even
Rint(m, e) ==
    LET len == Len(m)
        whole == IF len > e THEN ToInt(SubSeq(m, 1, len - e)) ELSE 0
        half == IF len >= e THEN m[len - e + 1] ELSE 0
        sticky == len >= e /\ AnyOne(SubSeq(m, len - e + 2, len))
    IN IF half = 1 /\ (sticky \/ whole % 2 = 1) THEN whole + 1 ELSE whole

\* how the double y is rounded to one decimal: "float" is the correctly
\* rounded decimal of float.__round__ and of the format .1f, "numpy" is
\* numpy's rint(y * 10) / 10
Roundings == {"float", "numpy"}

\* the double x * 100
TimesHundred(x) == ToDouble(Times(x.m, 100), x.e)

\* the double y * 10
TimesTen(y) == ToDouble(Times(y.m, 10), y.e)

\* the integer nearest to the double z, ties to even
RintOf(z) == Rint(z.m, z.e)

\* the double y rounded to one decimal, in tenths
RoundTenths(y, rounding) ==
    IF rounding = "numpy" THEN RintOf(TimesTen(y))
    ELSE Rint(Times(y.m, 10), y.e)

\* (c / t) * 100 rounded to one decimal, in tenths, for 0 <= c <= t
DoubleTenths(c, t, rounding) ==
    IF c = 0 THEN 0
    ELSE IF c = t THEN 1000
    ELSE RoundTenths(TimesHundred(Divide(c, t)), rounding)

\* DoubleTenths(p, ProbScale, "float") for the probabilities predict_proba
\* returns, evaluated once
Round1OfLevel ==
    [p \in {ProbLevels[i] : i \in DOMAIN ProbLevels} |->
        DoubleTenths(p, ProbScale, "float")]

\* f"{ml_prob*100:.1f}" for the double ml_prob = p / 10000: the percentage in
\* tenths
Round1(p) ==
    IF p \in DOMAIN Round1OfLevel THEN Round1OfLevel[p]
    ELSE DoubleTenths(p, ProbScale, "float")

----------------------------------------------------------------------------
(* The frame self.data: [none, cols, rows]; every row maps every column of  *)
(* cols to the row's value, derived columns included.                       *)

NoData == [none |-> TRUE, cols |-> {}, rows |-> <<>>]

Frame(cols, rows) == [none |-> FALSE, cols |-> cols, rows |-> rows]

\* self.data[name] = values
SetColumn(d, name, values) ==
    [d EXCEPT !.cols = @ \cup {name},
              !.rows = [i \in DOMAIN d.rows |->
                           [k \in (DOMAIN d.rows[i]) \cup {name} |->
                               IF k = name THEN values[i] ELSE d.rows[i][k]]]]

Column(d, name) == [i \in DOMAIN d.rows |-> d.rows[i][name]]

\* the first element of seq that satisfies Bad, or <<>> when none does
RECURSIVE FirstError(_)
FirstError(results) ==
    IF results = <<>> THEN Ok(0)
    ELSE IF ~Head(results).ok THEN Head(results)
    ELSE FirstError(Tail(results))

----------------------------------------------------------------------------
(* HybridStudentDSS: each method as a function of the state it reads.       *)
(* outcome is "ok" or the exception that leaves the method.                 *)

\* the ';' a record holds inside its cells: of the values the records take,
\* the famsup text "yes;no" holds one
Semicolons(row) ==
    IF "famsup" \in DOMAIN row /\ row["famsup"] = "yes;no" THEN 1 ELSE 0

\* read_csv(sep=';') on a comma file raises ParserError when a record has
\* more fields than the line before it; the first record is not checked (its
\* extra leading field becomes the index) and a shorter record is padded, so
\* the records after the first are measured against the first
FirstReadRaises(file) ==
    \E i \in 2 .. Len(file.rows) :
        Semicolons(file.rows[i]) > Semicolons(file.rows[1])

\* load_data: an unreadable file and a file without a header line (cols = {})
\* fail both read_csv attempts. read_csv(sep=';') parses a semicolon file
\* into its columns (in a semicolon file ';' only separates cells) and a comma
\* file into one column holding whole lines, with no exception, so the comma
\* fallback is not reached; when it raises on a comma file, the comma
\* fallback parses the file into its columns.
load_data(file, d) ==
    IF file.kind = "unreadable" \/ file.cols = {} THEN [ret |-> FALSE, data |-> d]
    ELSE IF file.kind = "semicolon" \/ FirstReadRaises(file)
    THEN [ret |-> TRUE, data |-> Frame(file.cols, file.rows)]
    ELSE [ret |-> TRUE,
          data |-> Frame({"line"}, [i \in DOMAIN file.rows |-> [line |-> i]])]

\* _save_model: every exception is swallowed; save is the environment's
\* outcome: "ok", "fail" (nothing written) or "partial" (a truncated file)
_save_model(m, dk, save) ==
    IF save = "ok" THEN m
    ELSE IF save = "partial" THEN "corrupt"
    ELSE dk

\* _load_model
_load_model(m, mt, dk) ==
    IF dk = "absent" THEN [ret |-> FALSE, model |-> m, model_trained |-> mt]
    ELSE IF dk = "corrupt" THEN [ret |-> FALSE, model |-> m, model_trained |-> mt]
    ELSE [ret |-> TRUE, model |-> dk, model_trained |-> TRUE]

\* train_model creating the estimator before it checks the columns
train_model_eager(d, m, mt, dk, save) ==
    LET same == [model |-> m, model_trained |-> mt, disk |-> dk, saved |-> "-"]
        early == [model |-> "unfitted", model_trained |-> mt, disk |-> dk, saved |-> "-"]
        missing == {k \in {required_features[i] : i \in DOMAIN required_features} :
                       k \notin d.cols}
        X == [i \in DOMAIN d.rows |->
                 [j \in DOMAIN required_features |-> d.rows[i][required_features[j]]]]
        y == [i \in DOMAIN d.rows |-> Label(d.rows[i]["G3"])]
    IN IF d.none THEN [outcome |-> "AttributeError", ret |-> "-"] @@ same
       ELSE IF "G3" \notin d.cols THEN [outcome |-> "ok", ret |-> "False"] @@ early
       ELSE IF missing # {} THEN [outcome |-> "ok", ret |-> "False"] @@ early
       ELSE IF FitRaises(y)
       THEN [outcome |-> "ValueError", ret |-> "-"] @@ early
       ELSE [outcome |-> "ok", ret |-> "True", model |-> FitModel(X, y),
             model_trained |-> TRUE,
             disk |-> _save_model(FitModel(X, y), dk, save), saved |-> save]

\* train_model
train_model(d, m, mt, dk, save) ==
    LET same == [model |-> m, model_trained |-> mt, disk |-> dk, saved |-> "-"]
        missing == {k \in {required_features[i] : i \in DOMAIN required_features} :
                       k \notin d.cols}
        X == [i \in DOMAIN d.rows |->
                 [j \in DOMAIN required_features |-> d.rows[i][required_features[j]]]]
        y == [i \in DOMAIN d.rows |-> Label(d.rows[i]["G3"])]
    IN IF d.none THEN [outcome |-> "AttributeError", ret |-> "-"] @@ same
       ELSE IF "G3" \notin d.cols THEN [outcome |-> "ok", ret |-> "False"] @@ same
       ELSE IF missing # {} THEN [outcome |-> "ok", ret |-> "False"] @@ same
       ELSE IF FitRaises(y)
       THEN [outcome |-> "ValueError", ret |-> "-", model |-> "unfitted",
             model_trained |-> mt, disk |-> dk, saved |-> "-"]
       ELSE [outcome |-> "ok", ret |-> "True", model |-> FitModel(X, y),
             model_trained |-> TRUE,
             disk |-> _save_model(FitModel(X, y), dk, save), saved |-> save]

\* the row DataFrame.apply(f, axis=1) hands to f when the frame has no rows:
\* one NaN per column. Only the labels decide whether f raises; 0 and "nan"
\* stand for the NaN of a numeric and of a text column.
TrialRow(d) == Series([k \in d.cols |-> IF k = "famsup" THEN "nan" ELSE 0])

\* self.data[name] = self.data.apply(f, axis=1) on a frame without rows:
\* apply calls f once on the trial row; when that call raises, the exception
\* is swallowed and apply returns a copy of the frame, and assigning a frame
\* to one column raises ValueError unless the frame has exactly one column
EmptyApplyRaises(d, trialOk) ==
    d.rows = <<>> /\ ~trialOk /\ Cardinality(d.cols) # 1

\* apply_rules adding the new scores to a RiskScore column already there
apply_rules_accumulate(d) ==
    IF d.none THEN [outcome |-> "AttributeError", key |-> "-", data |-> d]
    ELSE IF EmptyApplyRaises(d, compute_total_risk(TrialRow(d)).ok)
    THEN [outcome |-> "ValueError", key |-> "-", data |-> d]
    ELSE LET scores == [i \in DOMAIN d.rows |-> compute_total_risk(Series(d.rows[i]))]
             err == FirstError(scores)
             sum == [i \in DOMAIN scores |->
                        scores[i].val + get(Series(d.rows[i]), "RiskScore", 0)]
         IN IF ~err.ok THEN [outcome |-> "KeyError", key |-> err.key, data |-> d]
            ELSE LET d1 == SetColumn(d, "RiskScore", sum)
                     d2 == SetColumn(d1, "RiskLevel",
                                     [i \in DOMAIN scores |-> classify_risk(sum[i])])
                 IN [outcome |-> "ok", key |-> "-", data |-> d2]

\* apply_rules
apply_rules(d) ==
    IF d.none THEN [outcome |-> "AttributeError", key |-> "-", data |-> d]
    ELSE IF EmptyApplyRaises(d, compute_total_risk(TrialRow(d)).ok)
    THEN [outcome |-> "ValueError", key |-> "-", data |-> d]
    ELSE LET scores == [i \in DOMAIN d.rows |-> compute_total_risk(Series(d.rows[i]))]
             err == FirstError(scores)
         IN IF ~err.ok THEN [outcome |-> "KeyError", key |-> err.key, data |-> d]
            ELSE LET d1 == SetColumn(d, "RiskScore",
                                     [i \in DOMAIN scores |-> scores[i].val])
                     d2 == SetColumn(d1, "RiskLevel",
                                     [i \in DOMAIN scores |-> classify_risk(scores[i].val)])
                 IN [outcome |-> "ok", key |-> "-", data |-> d2]

\* apply_ml_predictions falling back to probability 0.5 instead of 0.0
apply_ml_predictions_half(d, m, mt) ==
    LET halves == [i \in DOMAIN d.rows |-> 5000]
        missing == {k \in {required_features[i] : i \in DOMAIN required_features} :
                       k \notin d.cols}
        X == [i \in DOMAIN d.rows |->
                 [j \in DOMAIN required_features |-> d.rows[i][required_features[j]]]]
    IN IF d.none THEN [outcome |-> "TypeError", mlok |-> FALSE, data |-> d]
       ELSE IF m = "None" \/ ~mt \/ missing # {} \/ m \notin Models
               \/ d.rows = <<>>
       THEN [outcome |-> "ok", mlok |-> FALSE,
             data |-> SetColumn(d, "ML_Risk_Probability", halves)]
       ELSE [outcome |-> "ok", mlok |-> TRUE,
             data |-> SetColumn(d, "ML_Risk_Probability",
                                [i \in DOMAIN X |-> predict_proba(m, X[i])])]

\* apply_ml_predictions; mlok tells whether predict_proba produced the column:
\* it raises, and the except branch writes 0.0, when a feature is missing,
\* the model cannot predict or the frame has no rows
apply_ml_predictions(d, m, mt) ==
    LET zeros == [i \in DOMAIN d.rows |-> 0]
        missing == {k \in {required_features[i] : i \in DOMAIN required_features} :
                       k \notin d.cols}
        X == [i \in DOMAIN d.rows |->
                 [j \in DOMAIN required_features |-> d.rows[i][required_features[j]]]]
    IN IF d.none THEN [outcome |-> "TypeError", mlok |-> FALSE, data |-> d]
       ELSE IF m = "None" \/ ~mt
       THEN [outcome |-> "ok", mlok |-> FALSE,
             data |-> SetColumn(d, "ML_Risk_Probability", zeros)]
       ELSE IF missing # {} \/ m \notin Models \/ d.rows = <<>>
       THEN [outcome |-> "ok", mlok |-> FALSE,
             data |-> SetColumn(d, "ML_Risk_Probability", zeros)]
       ELSE [outcome |-> "ok", mlok |-> TRUE,
             data |-> SetColumn(d, "ML_Risk_Probability",
                                [i \in DOMAIN X |-> predict_proba(m, X[i])])]

\* hybrid_decision: combine raises KeyError on a row without RiskScore; once
\* FinalRiskLevel is assigned, a trained engine compares it with RiskLevel
hybrid_decision(d, mt) ==
    IF d.none THEN [outcome |-> "AttributeError", key |-> "-", data |-> d]
    ELSE IF d.rows # <<>> /\ "RiskScore" \notin d.cols
    THEN [outcome |-> "KeyError", key |-> "RiskScore", data |-> d]
    ELSE IF EmptyApplyRaises(d, "RiskScore" \in d.cols)
    THEN [outcome |-> "ValueError", key |-> "-", data |-> d]
    ELSE LET d1 == SetColumn(d, "FinalRiskLevel",
                     [i \in DOMAIN d.rows |->
                        combine(get(Series(d.rows[i]), "ML_Risk_Probability", 0),
                                d.rows[i]["RiskScore"])])
         IN IF mt /\ "RiskLevel" \notin d1.cols
            THEN [outcome |-> "KeyError", key |-> "RiskLevel", data |-> d1]
            ELSE [outcome |-> "ok", key |-> "-", data |-> d1]

\* get_recs appending the note from the High Risk threshold 0.65 on
get_recs_from_high(row) ==
    LET recs == recommend_intervention(row, row.f["FinalRiskLevel"])
        ml_prob == get(row, "ML_Risk_Probability", 0)
    IN IF ml_prob > 6500
       THEN Append(recs, [id |-> "ml_note_close_monitoring", pct |-> Round1(ml_prob)])
       ELSE recs

\* get_recs adding the ML note from probability 0.7 on
get_recs_inclusive(row) ==
    LET recs == recommend_intervention(row, row.f["FinalRiskLevel"])
        ml_prob == get(row, "ML_Risk_Probability", 0)
    IN IF ml_prob >= 7000
       THEN Append(recs, [id |-> "ml_note_close_monitoring", pct |-> Round1(ml_prob)])
       ELSE recs

\* generate_recommendations.get_recs(row)
get_recs(row) ==
    LET recs == recommend_intervention(row, row.f["FinalRiskLevel"])
        ml_prob == get(row, "ML_Risk_Probability", 0)
    IN IF ml_prob > 7000
       THEN Append(recs, [id |-> "ml_note_close_monitoring", pct |-> Round1(ml_prob)])
       ELSE recs

\* generate_recommendations
generate_recommendations(d) ==
    IF d.none THEN [outcome |-> "AttributeError", key |-> "-", data |-> d]
    ELSE IF d.rows # <<>> /\ "FinalRiskLevel" \notin d.cols
    THEN [outcome |-> "KeyError", key |-> "FinalRiskLevel", data |-> d]
    ELSE IF EmptyApplyRaises(d, "FinalRiskLevel" \in d.cols)
    THEN [outcome |-> "ValueError", key |-> "-", data |-> d]
    ELSE [outcome |-> "ok", key |-> "-",
          data |-> SetColumn(d, "Recommendations",
                     [i \in DOMAIN d.rows |-> get_recs(Series(d.rows[i]))])]

\* predict_single(student_data)
\* the feature vector predict_single builds for one record
single_features(student) ==
    <<get(student, "failures", 0), get(student, "absences", 0),
      get(student, "studytime", 2), get(student, "G1", 0),
      get(student, "G2", 0)>>

predict_single(student, m, mt) ==
    LET score == compute_total_risk(student)
        rule_score == score.val
        rule_level == classify_risk(rule_score)
        X == single_features(student)
        ml_available == m # "None" /\ mt /\ m \in Models
        ml_prob == IF ml_available THEN predict_proba(m, X) ELSE 0
        final == final_level(ml_prob, rule_score)
        recs == recommend_intervention(student, final)
        recommendations ==
            IF ml_available /\ ml_prob > 7000
            THEN Append(recs, [id |-> "ml_note", pct |-> Round1(ml_prob)])
            ELSE recs
    IN IF ~score.ok THEN [outcome |-> "KeyError", key |-> score.key]
       ELSE [outcome |-> "ok", key |-> "-",
             rule_score |-> rule_score, rule_level |-> rule_level,
             ml_probability |-> ml_prob, ml_available |-> ml_available,
             final_level |-> final, recommendations |-> recommendations]

----------------------------------------------------------------------------
(* Queries: get_summary_statistics and get_at_risk_students of               *)
(* HybridStudentDSS, and the same two of the rule-only StudentDSS            *)
(* (engine/dss_engine.py), which scores with evaluate_risk.                  *)

\* the percentage truncated, not rounded, to one decimal
Pct_floor(count, total, rounding) ==
    IF total > 0 THEN (count * 1000) \div total ELSE 0

\* DoubleTenths for the counts of a frame of up to 8 records, evaluated once
PctOfCounts ==
    [total \in 1 .. 8 |-> [count \in 0 .. total |-> [rounding \in Roundings |->
        DoubleTenths(count, total, rounding)]]]

\* round((count / total) * 100, 1) if total > 0 else 0, in tenths of a percent
Pct(count, total, rounding) ==
    IF total \in DOMAIN PctOfCounts /\ count \in 0 .. total
    THEN PctOfCounts[total][count][rounding]
    ELSE IF total > 0 THEN DoubleTenths(count, total, rounding)
    ELSE 0

\* (levels == tier).sum()
CountLevel(levels, tier) == Cardinality({i \in DOMAIN levels : levels[i] = tier})

\* the dict both get_summary_statistics build from the tiers of the records
SummaryOf(levels, rounding) ==
    LET total == Len(levels)
        high == CountLevel(levels, High)
        moderate == CountLevel(levels, Moderate)
        low == CountLevel(levels, Low)
    IN [outcome |-> "ok", empty |-> FALSE, total_students |-> total,
        high_risk |-> high, moderate_risk |-> moderate, low_risk |-> low,
        high_risk_pct |-> Pct(high, total, rounding),
        moderate_risk_pct |-> Pct(moderate, total, rounding),
        low_risk_pct |-> Pct(low, total, rounding)]

\* HybridStudentDSS.get_summary_statistics: the results it can return; {}
\* when no dataset is loaded. The counts are numpy integers, so round() is
\* given a numpy.float64, whose __round__ is float's or numpy's with the
\* numpy build.
get_summary_statistics(d, mt) ==
    IF d.none THEN {[outcome |-> "ok", empty |-> TRUE]}
    ELSE IF "FinalRiskLevel" \notin d.cols
    THEN {[outcome |-> "KeyError", key |-> "FinalRiskLevel"]}
    ELSE {[ml_enabled |-> mt] @@ SummaryOf(Column(d, "FinalRiskLevel"), rounding) :
             rounding \in Roundings}

\* the orderings of the index set S
Perms(S) ==
    {p \in [1 .. Cardinality(S) -> S] :
        \A i, j \in 1 .. Cardinality(S) : p[i] = p[j] => i = j}

\* the _sort_key of a row: (0 if High Risk else 1, -RiskScore)
SortKey(row) ==
    <<IF row["FinalRiskLevel"] = High THEN 0 ELSE 1, 0 - row["RiskScore"]>>

\* tuple comparison a <= b
KeyLeq(a, b) == a[1] < b[1] \/ (a[1] = b[1] /\ a[2] <= b[2])

\* get_at_risk_students keeping the High Risk records only
get_at_risk_students_high_only(d) ==
    IF d.none THEN {[outcome |-> "ok", key |-> "-", index |-> <<>>]}
    ELSE IF "FinalRiskLevel" \notin d.cols
    THEN {[outcome |-> "KeyError", key |-> "FinalRiskLevel", index |-> <<>>]}
    ELSE LET at_risk == {i \in DOMAIN d.rows : d.rows[i]["FinalRiskLevel"] = High}
         IN IF at_risk # {} /\ "RiskScore" \notin d.cols
            THEN {[outcome |-> "KeyError", key |-> "RiskScore", index |-> <<>>]}
            ELSE IF at_risk = {} /\ "RiskScore" \notin d.cols
                    /\ Cardinality(d.cols) # 1
            THEN {[outcome |-> "ValueError", key |-> "-", index |-> <<>>]}
            ELSE
            {[outcome |-> "ok", key |-> "-", index |-> p] :
                p \in {q \in Perms(at_risk) :
                         \A i, j \in DOMAIN q :
                            i < j => KeyLeq(SortKey(d.rows[q[i]]),
                                           SortKey(d.rows[q[j]]))}}

\* HybridStudentDSS.get_at_risk_students: the results it can return, each the
\* index labels of the returned frame in order. sort_values uses an unstable
\* sort, so rows with equal keys can come in either order. The _sort_key
\* lambda raises KeyError on a row without RiskScore; when no row is at risk
\* apply calls it on a row of NaN, swallows the KeyError and returns a copy
\* of the filtered frame, which the assignment to _sort_key rejects with
\* ValueError unless the frame has one column.
get_at_risk_students(d) ==
    IF d.none THEN {[outcome |-> "ok", key |-> "-", index |-> <<>>]}
    ELSE IF "FinalRiskLevel" \notin d.cols
    THEN {[outcome |-> "KeyError", key |-> "FinalRiskLevel", index |-> <<>>]}
    ELSE LET at_risk == {i \in DOMAIN d.rows :
                            d.rows[i]["FinalRiskLevel"] \in {High, Moderate}}
         IN IF at_risk # {} /\ "RiskScore" \notin d.cols
            THEN {[outcome |-> "KeyError", key |-> "RiskScore", index |-> <<>>]}
            ELSE IF at_risk = {} /\ "RiskScore" \notin d.cols
                    /\ Cardinality(d.cols) # 1
            THEN {[outcome |-> "ValueError", key |-> "-", index |-> <<>>]}
            ELSE {[outcome |-> "ok", key |-> "-", index |-> p] :
                    p \in {q \in Perms(at_risk) :
                             \A i, j \in DOMAIN q :
                                i < j => KeyLeq(SortKey(d.rows[q[i]]),
                                               SortKey(d.rows[q[j]]))}}

\* the fields StudentDSS.analyze_student reads with student_row[...]
AnalysisFields == <<"G1", "G2", "absences", "studytime", "failures", "famsup">>

\* StudentDSS.analyze_student on one row of students_df
analyze_student(row) ==
    LET e == evaluate_risk(Series(row))
        miss == FirstMissing(Series(row), AnalysisFields)
    IN IF ~e.ok THEN [ok |-> FALSE, key |-> e.key, total_risk_score |-> 0,
                      risk_level |-> "-"]
       ELSE IF miss # "-" THEN [ok |-> FALSE, key |-> miss, total_risk_score |-> 0,
                                risk_level |-> "-"]
       ELSE [ok |-> TRUE, key |-> "-",
             total_risk_score |-> calculate_total_risk(e.risk_scores),
             risk_level |-> e.risk_level]

\* StudentDSS.analyze_all_students
analyze_all_students(d) == [i \in DOMAIN d.rows |-> analyze_student(d.rows[i])]

\* StudentDSS.get_at_risk_students: filtered to High and Moderate, then
\* list.sort by total score, highest first; list.sort is stable
StudentDSS_get_at_risk_students(d) ==
    LET all == analyze_all_students(d)
        err == FirstError([i \in DOMAIN all |->
                              [ok |-> all[i].ok, val |-> 0, key |-> all[i].key]])
        at_risk == {i \in DOMAIN all : all[i].risk_level \in {High, Moderate}}
        Before(i, j) ==
            \/ all[i].total_risk_score > all[j].total_risk_score
            \/ (all[i].total_risk_score = all[j].total_risk_score /\ i < j)
    IN IF d.none THEN [outcome |-> "TypeError", key |-> "-", index |-> <<>>]
       ELSE IF ~err.ok THEN [outcome |-> "KeyError", key |-> err.key, index |-> <<>>]
       ELSE [outcome |-> "ok", key |-> "-",
             index |-> CHOOSE q \in Perms(at_risk) :
                          \A i, j \in DOMAIN q : i < j => Before(q[i], q[j])]

\* StudentDSS.get_summary_statistics
StudentDSS_get_summary_statistics(d) ==
    LET all == analyze_all_students(d)
        err == FirstError([i \in DOMAIN all |->
                              [ok |-> all[i].ok, val |-> 0, key |-> all[i].key]])
    IN IF d.none THEN [outcome |-> "TypeError", key |-> "-"]
       ELSE IF ~err.ok THEN [outcome |-> "KeyError", key |-> err.key]
       ELSE SummaryOf([i \in DOMAIN all |-> all[i].risk_level], "float")

----------------------------------------------------------------------------
(* run(): the model-setup step and the call log of a run *)

Bool(b) == IF b THEN "True" ELSE "False"

Call(name, ret) == [call |-> name, ret |-> ret]

\* what train_model adds to the call log: itself and, when fit succeeded,
\* the _save_model call it makes
TrainCalls(t) ==
    <<Call("train_model", IF t.outcome = "ok" THEN t.ret ELSE "raised")>>
    \o (IF t.saved = "-" THEN <<>> ELSE <<Call("_save_model", t.saved)>>)

\* model setup that retrains after a successful load as well
model_setup_always_train(tn, d, m, mt, dk, save) ==
    LET l == _load_model(m, mt, dk)
        t0 == train_model(d, m, mt, dk, save)
        t1 == train_model(d, l.model, l.model_trained, dk, save)
    IN IF tn
       THEN [outcome |-> t0.outcome, model |-> t0.model,
             model_trained |-> t0.model_trained, disk |-> t0.disk,
             calls |-> TrainCalls(t0)]
       ELSE [outcome |-> t1.outcome, model |-> t1.model,
             model_trained |-> t1.model_trained, disk |-> t1.disk,
             calls |-> <<Call("_load_model", Bool(l.ret))>> \o TrainCalls(t1)]

\* run(), step 2: train when train_new_model, else load and train only when
\* _load_model returned False
model_setup(tn, d, m, mt, dk, save) ==
    LET t == train_model(d, m, mt, dk, save)
        l == _load_model(m, mt, dk)
    IN IF tn
       THEN [outcome |-> t.outcome, model |-> t.model,
             model_trained |-> t.model_trained, disk |-> t.disk,
             calls |-> TrainCalls(t)]
       ELSE IF l.ret
       THEN [outcome |-> "ok", model |-> l.model,
             model_trained |-> l.model_trained, disk |-> dk,
             calls |-> <<Call("_load_model", "True")>>]
       ELSE [outcome |-> t.outcome, model |-> t.model,
             model_trained |-> t.model_trained, disk |-> t.disk,
             calls |-> <<Call("_load_model", "False")>> \o TrainCalls(t)]

----------------------------------------------------------------------------
(* Input domains *)

AllFields == {"G1", "G2", "G3", "absences", "studytime", "failures",
              "famsup", "Medu", "Fedu", "Dalc", "Walc", "goout"}

OptionalFields == {"studytime", "famsup", "Medu", "Fedu", "Dalc", "Walc", "goout"}

Without(f, ks) == [k \in (DOMAIN f) \ ks |-> f[k]]

\* Scenario A of the test suite (test_rule_scoring, high_risk_student)
ScenarioA ==
    [G1 |-> 6, G2 |-> 5, G3 |-> 7, absences |-> 20, failures |-> 3,
     studytime |-> 1, famsup |-> "no", Medu |-> 1, Fedu |-> 1,
     Dalc |-> 5, Walc |-> 5, goout |-> 5]

\* Scenario B of the test suite (test_rule_scoring, low_risk_student)
ScenarioB ==
    [G1 |-> 18, G2 |-> 18, G3 |-> 18, absences |-> 0, failures |-> 0,
     studytime |-> 4, famsup |-> "yes", Medu |-> 4, Fedu |-> 4,
     Dalc |-> 1, Walc |-> 1, goout |-> 2]

\* first row of test_hybrid_dss's frame: rule score 6
TestRow1 ==
    [G1 |-> 10, G2 |-> 9, G3 |-> 8, absences |-> 10, failures |-> 1,
     studytime |-> 2, famsup |-> "yes", Medu |-> 2, Fedu |-> 2,
     Dalc |-> 1, Walc |-> 2, goout |-> 3]

\* a passing student with rule score 2
LowRow ==
    [G1 |-> 14, G2 |-> 14, G3 |-> 13, absences |-> 2, failures |-> 0,
     studytime |-> 3, famsup |-> "no", Medu |-> 4, Fedu |-> 4,
     Dalc |-> 1, Walc |-> 1, goout |-> 2]

DropColumn(rows, ks) == [i \in DOMAIN rows |-> Without(rows[i], ks)]

CsvFile(kind, rows) ==
    [kind |-> kind,
     cols |-> IF rows = <<>> THEN {} ELSE DOMAIN rows[1],
     rows |-> rows]

\* a file holding the header line and no record
HeaderOnly == [kind |-> "semicolon", cols |-> AllFields, rows |-> <<>>]

\* the files dataset_path can name
CsvFiles ==
    { CsvFile("semicolon", <<ScenarioA, ScenarioB, TestRow1>>),
      CsvFile("semicolon", <<ScenarioB, LowRow, ScenarioA>>),
      CsvFile("semicolon", <<ScenarioB, LowRow>>),
      CsvFile("semicolon", DropColumn(<<ScenarioA, TestRow1, LowRow>>, {"G3"})),
      CsvFile("semicolon", DropColumn(<<ScenarioA, ScenarioB, TestRow1>>, {"G1"})),
      CsvFile("semicolon", DropColumn(<<ScenarioA, ScenarioB>>, {"goout"})),
      CsvFile("semicolon", DropColumn(<<TestRow1, ScenarioB>>, {"studytime"})),
      CsvFile("comma", <<ScenarioA, ScenarioB, TestRow1>>),
      CsvFile("comma", <<ScenarioB, [ScenarioA EXCEPT !.famsup = "yes;no"]>>),
      CsvFile("semicolon", <<TestRow1, ScenarioB, TestRow1>>),
      HeaderOnly,
      CsvFile("unreadable", <<>>) }

\* what model_path holds before the engine is constructed
DiskStates == {"absent", "corrupt", "m3"}

SaveOutcomes == {"ok", "fail", "partial"}

\* the records predict_single is called with
SingleInputs ==
    { Dict(Without(ScenarioA, {"G3"})),
      Dict(Without(ScenarioB, {"G3"})),
      Dict(Without(TestRow1, {"G3"})),
      Dict(Without(LowRow, {"G3"})),
      Dict(TestRow1),
      Dict(Without(TestRow1, {"G3", "G2"})),
      Dict(Without(LowRow, {"G3", "absences"})),
      Dict(Without(ScenarioA, {"G3", "G1"} \cup OptionalFields)),
      Series(Without(ScenarioA, {"G3"})),
      Series(Without(LowRow, {"G3", "G2"})),
      Series(Without(TestRow1, {"G3", "goout"})) }

----------------------------------------------------------------------------
(* The engine as a state machine. A method called from outside runs when no *)
(* run() is in progress (pc = "idle"); run() is the chain RunStart ..       *)
(* RunRecs, one step per stage, and ends early when a stage raises.         *)

NoEval == [kind |-> "none"]

\* the last call made from outside: ret is the returned value when it is a
\* constant or a flag and the missing key when the call raised; res holds the
\* dict a call returned
NoResult == [outcome |-> "none"]

Returned(op, arg, ret) ==
    [op |-> op, arg |-> arg, outcome |-> "ok", ret |-> ret, res |-> NoResult]

ReturnedDict(op, arg, res) ==
    [op |-> op, arg |-> arg, outcome |-> "ok", ret |-> "dict", res |-> res]

Raised(op, arg, exc, key) ==
    [op |-> op, arg |-> arg, outcome |-> exc, ret |-> key, res |-> NoResult]

Init ==
    /\ csv \in CsvFiles
    /\ disk \in DiskStates
    /\ data = NoData
    /\ model = "None"
    /\ model_trained = FALSE
    /\ pc = "idle"
    /\ trainNew = FALSE
    /\ trace = <<>>
    /\ last = Returned("__init__", "-", "None")
    /\ ev = NoEval

DoLoadData ==
    /\ pc = "idle"
    /\ LET r == load_data(csv, data) IN
        /\ data' = r.data
        /\ last' = Returned("load_data", "-", Bool(r.ret))
    /\ UNCHANGED <<csv, disk, model, model_trained, pc, trainNew, trace, ev>>

DoTrainModel ==
    /\ pc = "idle"
    /\ \E save \in SaveOutcomes :
        LET t == train_model(data, model, model_trained, disk, save) IN
        /\ model' = t.model
        /\ model_trained' = t.model_trained
        /\ disk' = t.disk
        /\ last' = IF t.outcome = "ok" THEN Returned("train_model", "-", t.ret)
                   ELSE Raised("train_model", "-", t.outcome, "-")
    /\ UNCHANGED <<csv, data, pc, trainNew, trace, ev>>

DoLoadModel ==
    /\ pc = "idle"
    /\ LET l == _load_model(model, model_trained, disk) IN
        /\ model' = l.model
        /\ model_trained' = l.model_trained
        /\ last' = Returned("_load_model", "-", Bool(l.ret))
    /\ UNCHANGED <<csv, disk, data, pc, trainNew, trace, ev>>

\* a stage called from outside: apply_rules, apply_ml_predictions,
\* hybrid_decision, generate_recommendations
StageResult(name) ==
    IF name = "apply_rules" THEN apply_rules(data)
    ELSE IF name = "apply_ml_predictions"
    THEN [key |-> "-"] @@ apply_ml_predictions(data, model, model_trained)
    ELSE IF name = "hybrid_decision" THEN hybrid_decision(data, model_trained)
    ELSE generate_recommendations(data)

DoStage(name) ==
    /\ pc = "idle"
    /\ LET r == StageResult(name) IN
        /\ data' = r.data
        /\ last' = IF r.outcome = "ok" THEN Returned(name, "-", "None")
                   ELSE Raised(name, "-", r.outcome, r.key)
    /\ UNCHANGED <<csv, disk, model, model_trained, pc, trainNew, trace, ev>>

DoApplyRules == DoStage("apply_rules")
DoApplyML == DoStage("apply_ml_predictions")
DoHybridDecision == DoStage("hybrid_decision")
DoGenerateRecommendations == DoStage("generate_recommendations")

\* predict_single that records on the engine whether the classifier answered
DoPredictSingle_recording ==
    /\ pc = "idle"
    /\ \E student \in SingleInputs :
        LET r == predict_single(student, model, model_trained) IN
        /\ last' = IF r.outcome = "ok" THEN ReturnedDict("predict_single", student, r)
                    ELSE Raised("predict_single", student, r.outcome, r.key)
        /\ model_trained' = (r.outcome = "ok" /\ r.ml_available)
    /\ UNCHANGED <<csv, disk, data, model, pc, trainNew, trace, ev>>

DoPredictSingle ==
    /\ pc = "idle"
    /\ \E student \in SingleInputs :
        LET r == predict_single(student, model, model_trained) IN
        last' = IF r.outcome = "ok" THEN ReturnedDict("predict_single", student, r)
                ELSE Raised("predict_single", student, r.outcome, r.key)
    /\ UNCHANGED <<csv, disk, data, model, model_trained, pc, trainNew, trace, ev>>

DoGetSummary ==
    /\ pc = "idle"
    /\ \E r \in get_summary_statistics(data, model_trained) :
        last' = IF r.outcome = "ok" THEN ReturnedDict("get_summary_statistics", "-", r)
                ELSE Raised("get_summary_statistics", "-", r.outcome, r.key)
    /\ UNCHANGED <<csv, disk, data, model, model_trained, pc, trainNew, trace, ev>>

DoGetAtRisk ==
    /\ pc = "idle"
    /\ \E r \in get_at_risk_students(data) :
        last' = IF r.outcome = "ok" THEN ReturnedDict("get_at_risk_students", "-", r)
                ELSE Raised("get_at_risk_students", "-", r.outcome, r.key)
    /\ UNCHANGED <<csv, disk, data, model, model_trained, pc, trainNew, trace, ev>>

\* the rule-only engine on the same file: StudentDSS(data_path), load_data,
\* then one of its two queries
DoStudentDSS ==
    /\ pc = "idle"
    /\ \E query \in {"get_at_risk_students", "get_summary_statistics"} :
        LET op == "StudentDSS." \o query
            l == load_data(csv, NoData)
            r == IF query = "get_at_risk_students"
                 THEN StudentDSS_get_at_risk_students(l.data)
                 ELSE StudentDSS_get_summary_statistics(l.data)
        IN last' = IF ~l.ret THEN Returned("StudentDSS.load_data", "-", "False")
                   ELSE IF r.outcome = "ok" THEN ReturnedDict(op, "-", r)
                   ELSE Raised(op, "-", r.outcome, r.key)
    /\ UNCHANGED <<csv, disk, data, model, model_trained, pc, trainNew, trace, ev>>

\* run() going on to the model setup after a failed load
RunStart_noreturn ==
    /\ pc = "idle"
    /\ \E tn \in BOOLEAN :
        LET r == load_data(csv, data) IN
        /\ data' = r.data
        /\ trainNew' = tn
        /\ trace' = <<Call("load_data", Bool(r.ret))>>
        /\ pc' = "setup"
        /\ last' = Returned("load_data", "-", Bool(r.ret))
    /\ UNCHANGED <<csv, disk, model, model_trained, ev>>

\* run(train_new_model), step 1: load_data; a failed load returns None
RunStart ==
    /\ pc = "idle"
    /\ \E tn \in BOOLEAN :
        LET r == load_data(csv, data) IN
        /\ data' = r.data
        /\ trainNew' = tn
        /\ trace' = <<Call("load_data", Bool(r.ret))>>
        /\ pc' = IF r.ret THEN "setup" ELSE "idle"
        /\ last' = IF r.ret THEN Returned("load_data", "-", "True")
                   ELSE Returned("run", Bool(tn), "None")
    /\ UNCHANGED <<csv, disk, model, model_trained, ev>>

\* step 2: ML model setup
RunSetup ==
    /\ pc = "setup"
    /\ \E save \in SaveOutcomes :
        LET r == model_setup(trainNew, data, model, model_trained, disk, save) IN
        /\ model' = r.model
        /\ model_trained' = r.model_trained
        /\ disk' = r.disk
        /\ trace' = trace \o r.calls
        /\ pc' = IF r.outcome = "ok" THEN "rules" ELSE "idle"
        /\ last' = IF r.outcome = "ok"
                   THEN Returned(r.calls[Len(r.calls)].call, "-", r.calls[Len(r.calls)].ret)
                   ELSE Raised("run", Bool(trainNew), r.outcome, "-")
    /\ UNCHANGED <<csv, data, trainNew, ev>>

\* steps 3 to 6: the stage at pc, then the next position; the last stage
\* returns self.data
RunStage(at, name, next) ==
    /\ pc = at
    /\ LET r == StageResult(name) IN
        /\ data' = r.data
        /\ trace' = Append(trace, Call(name, IF r.outcome = "ok" THEN "None" ELSE "raised"))
        /\ pc' = IF r.outcome = "ok" THEN next ELSE "idle"
        /\ last' = IF r.outcome # "ok" THEN Raised("run", Bool(trainNew), r.outcome, r.key)
                   ELSE IF next = "idle" THEN Returned("run", Bool(trainNew), "data")
                   ELSE Returned(name, "-", "None")
    /\ UNCHANGED <<csv, disk, model, model_trained, trainNew, ev>>

RunRules == RunStage("rules", "apply_rules", "ml")
RunML == RunStage("ml", "apply_ml_predictions", "hybrid")
RunHybrid == RunStage("hybrid", "hybrid_decision", "recs")
RunRecs == RunStage("recs", "generate_recommendations", "idle")

Next ==
    \/ DoLoadData
    \/ DoTrainModel
    \/ DoLoadModel
    \/ DoApplyRules
    \/ DoApplyML
    \/ DoHybridDecision
    \/ DoGenerateRecommendations
    \/ DoPredictSingle
    \/ DoGetSummary
    \/ DoGetAtRisk
    \/ DoStudentDSS
    \/ RunStart
    \/ RunSetup
    \/ RunRules
    \/ RunML
    \/ RunHybrid
    \/ RunRecs

Spec == Init /\ [][Next]_vars

----------------------------------------------------------------------------
(* The pure functions on their own: the engine is at rest and one action    *)
(* applies the function under study, once, to inputs drawn from a bounded   *)
(* set.                                                                     *)

InitPure ==
    /\ csv = CsvFile("unreadable", <<>>)
    /\ disk = "absent"
    /\ data = NoData
    /\ model = "None"
    /\ model_trained = FALSE
    /\ pc = "idle"
    /\ trainNew = FALSE
    /\ trace = <<>>
    /\ last = Returned("__init__", "-", "None")
    /\ ev = NoEval

\* the largest total the four sub-scores can reach: 4 + 3 + 3 + 5
MaxScore == 15

Scores == 0 .. MaxScore

\* probabilities around every threshold of the policy
Probs == {0, 1, 3999, 4000, 4001, 6499, 6500, 6501, 7000, ProbScale}

\* reconciliation of two (score, probability) pairs on both paths: the batch
\* stage's combine and predict_single's inlined decision
EvalReconcile ==
    /\ ev = NoEval
    /\ \E s1 \in Scores, s2 \in Scores, p1 \in Probs, p2 \in Probs :
        ev' = [kind |-> "reconcile",
               s1 |-> s1, p1 |-> p1, s2 |-> s2, p2 |-> p2,
               rule1 |-> classify_risk(s1),
               batch1 |-> combine(p1, s1), single1 |-> final_level(p1, s1),
               batch2 |-> combine(p2, s2), single2 |-> final_level(p2, s2)]
    /\ UNCHANGED engineVars

SpecReconcile == InitPure /\ [][EvalReconcile]_vars

\* the sub-scores, total and rule tier of one record
Scored(row) ==
    LET total == compute_total_risk(row) IN
    [aps |-> aps_adjustment(row), ars |-> attendance_risk(row),
     fsr |-> family_support_risk(row), lrs |-> lifestyle_risk(row),
     total |-> total,
     level |-> IF total.ok THEN classify_risk(total.val) ELSE "-"]

\* records with every field present, over values on both sides of every
\* threshold of the scorer
FullRecords ==
    [G1 : {10}, G2 : {9, 10, 11, 12}, G3 : {10}, absences : {4, 5, 15, 16},
     failures : {0, 1, 2}, studytime : {1, 2}, famsup : {"yes", "no"},
     Medu : {1, 2, 3}, Fedu : {2}, Dalc : {3, 4, 5}, Walc : {4},
     goout : {3, 4}]

BaseRecords == {ScenarioA, ScenarioB, TestRow1, LowRow}

\* the same records with one field, or every optional field, missing
PartialRecords ==
    {Without(r, {k}) : r \in BaseRecords, k \in AllFields}
    \cup {Without(r, OptionalFields) : r \in BaseRecords}

RecordInputs == FullRecords \cup BaseRecords \cup PartialRecords

\* the scorer on the same field values held by a mapping and by a row
EvalScore ==
    /\ ev = NoEval
    /\ \E f \in RecordInputs :
        ev' = [kind |-> "score", f |-> f,
               dict |-> Scored(Dict(f)), series |-> Scored(Series(f))]
    /\ UNCHANGED engineVars

\* the values each sub-score function can return
ApsValues == {0, 2, 4}
ArsValues == {0, 1, 3}
FsrValues == 0 .. 3
LrsValues == 0 .. 5

SubValues == <<ApsValues, ArsValues, FsrValues, LrsValues>>

Sum4(t) == t[1] + t[2] + t[3] + t[4]

\* classify_risk on a total and on the total after one sub-score, the one at
\* position which, was raised with the other three held fixed
EvalClassify ==
    /\ ev = NoEval
    /\ \E a \in ApsValues, r \in ArsValues, f \in FsrValues, l \in LrsValues :
       \E which \in 1 .. 4 :
       \E to \in SubValues[which] :
        LET subs == <<a, r, f, l>>
            raised == [subs EXCEPT ![which] = to]
        IN /\ to > subs[which]
           /\ ev' = [kind |-> "classify", subs |-> subs, raised |-> raised,
                     score1 |-> Sum4(subs), level1 |-> classify_risk(Sum4(subs)),
                     score2 |-> Sum4(raised), level2 |-> classify_risk(Sum4(raised))]
    /\ UNCHANGED engineVars

NextRules == EvalScore \/ EvalClassify

SpecRules == InitPure /\ [][NextRules]_vars

----------------------------------------------------------------------------
(* evaluate_risk step by step: one evaluation is declare, then one step per *)
(* activation the engine fires, in any order, then determine_risk_level.    *)
(* ev holds the engine of the evaluation in progress.                       *)

\* evaluations made one after the other
MaxEvaluations == 2

\* complete records, the values of each field on both sides of every band
ExpertRecords ==
    { [G1 |-> 10, G2 |-> g2, G3 |-> 10, absences |-> ab, failures |-> 0,
       studytime |-> st, famsup |-> fs, Medu |-> 2, Fedu |-> fe,
       Dalc |-> da, Walc |-> 4, goout |-> go] :
        g2 \in {9, 10, 11, 12}, ab \in {4, 5, 15, 16}, st \in {1, 2},
        fs \in {"yes", "no"}, fe \in {2, 3}, da \in {3, 4}, go \in {3, 4} }

\* engine = StudentRiskExpertSystem(); engine.reset_state(); engine.declare(..)
ExpertDeclare ==
    /\ \/ ev = NoEval
       \/ ev.kind = "expert" /\ ev.phase = "done" /\ ev.n < MaxEvaluations
    /\ \E f \in ExpertRecords :
        ev' = [kind |-> "expert", phase |-> "run",
               n |-> IF ev = NoEval THEN 1 ELSE ev.n + 1,
               f |-> f,
               agenda |-> Activations(StudentFact(f)),
               fired |-> [r \in RuleNames |-> 0],
               risk_scores |-> ZeroScores,
               risk_level |-> "None"]
    /\ UNCHANGED engineVars

\* engine.run(): the next activation leaves the agenda and its rule's body runs
ExpertFire ==
    /\ ev.kind = "expert" /\ ev.phase = "run"
    /\ \E r \in ev.agenda :
        ev' = [ev EXCEPT !.agenda = @ \ {r},
                         !.fired[r] = @ + 1,
                         !.risk_scores = FireRule(@, r)]
    /\ UNCHANGED engineVars

\* engine.determine_risk_level(), once the agenda is empty
ExpertDetermine ==
    /\ ev.kind = "expert" /\ ev.phase = "run" /\ ev.agenda = {}
    /\ ev' = [ev EXCEPT !.phase = "done",
                         !.risk_level = determine_risk_level(ev.risk_scores)]
    /\ UNCHANGED engineVars

NextExpert == ExpertDeclare \/ ExpertFire \/ ExpertDetermine

SpecExpert == InitPure /\ [][NextExpert]_vars

\* the record of test_recommendations
RecStudent ==
    [G2 |-> 8, absences |-> 12, failures |-> 2, studytime |-> 1, famsup |-> "no"]

\* the risk_level arguments: the three tier names and a string that is none
\* of them
RecLevels == Tiers \cup {"Unknown"}

RecInputs == RecordInputs \cup {RecStudent}

\* recommend_intervention on the same field values held by a mapping and by
\* a row
EvalRecommend ==
    /\ ev = NoEval
    /\ \E f \in RecInputs, lvl \in RecLevels :
        ev' = [kind |-> "recs", f |-> f, risk_level |-> lvl,
               dict |-> recommend_intervention(Dict(f), lvl),
               series |-> recommend_intervention(Series(f), lvl)]
    /\ UNCHANGED engineVars

SpecRecs == InitPure /\ [][EvalRecommend]_vars

----------------------------------------------------------------------------
(* Claims *)

IsReconcile == ev.kind = "reconcile"

\* C1: on both paths the reconciled tier is High exactly when the probability
\* is strictly above 0.65 or the score is at least 8; otherwise Moderate
\* exactly when the probability is strictly above 0.4 or the score is at least
\* 4; otherwise Low. Probabilities of exactly 0.65 and 0.4 do not escalate,
\* and probability 0.7 with score 2 is High.
C1_ReconcileCascade ==
    IsReconcile =>
        LET hi == ev.p1 > 6500 \/ ev.s1 >= 8
            mid == ev.p1 > 4000 \/ ev.s1 >= 4
        IN /\ \A r \in {ev.batch1, ev.single1} :
                /\ (r = High) <=> hi
                /\ (r = Moderate) <=> (~hi /\ mid)
                /\ (r = Low) <=> (~hi /\ ~mid)
           /\ (ev.p1 = 6500 /\ ev.s1 < 8) => ev.batch1 # High /\ ev.single1 # High
           /\ (ev.p1 = 4000 /\ ev.s1 < 4) => ev.batch1 = Low /\ ev.single1 = Low
           /\ (ev.p1 = 7000 /\ ev.s1 = 2) => ev.batch1 = High /\ ev.single1 = High

\* Scenario D: probability 0.7 and score 2 reconciled to High on both paths
C1_Witness ==
    /\ IsReconcile
    /\ ev.p1 = 7000 /\ ev.s1 = 2
    /\ ev.batch1 = High /\ ev.single1 = High

\* the tier the probability alone gives
ProbTier(p) == IF p > 6500 THEN High ELSE IF p > 4000 THEN Moderate ELSE Low

ScenarioADict == Dict(Without(ScenarioA, {"G1", "G3"}))

\* C3: the reconciled tier is never below the rule tier of the score nor
\* below the tier of the probability alone; a score of at least 8 is High
\* whatever the probability, and Scenario A scores 15.
C3_NoDeescalation ==
    /\ compute_total_risk(ScenarioADict) = Ok(15)
    /\ IsReconcile =>
        \A r \in {ev.batch1, ev.single1} :
            /\ TierRank(r) >= TierRank(ev.rule1)
            /\ TierRank(r) >= TierRank(ProbTier(ev.p1))
            /\ ev.s1 >= 8 => r = High
            /\ ev.s1 = compute_total_risk(ScenarioADict).val => r = High

\* a score of 15 with probability 0 stays High, and a score of 0 with
\* probability 1 is raised to High
C3_Witness ==
    /\ IsReconcile
    /\ ev.s1 = 15 /\ ev.p1 = 0 /\ ev.batch1 = High /\ ev.single1 = High
    /\ ev.s2 = 0 /\ ev.p2 = ProbScale /\ ev.batch2 = High /\ ev.single2 = High

\* C4: reconciliation is monotone in each argument: with the score fixed a
\* higher probability never gives a lower tier, and with the probability
\* fixed a higher score never gives a lower tier, on both paths.
C4_Monotone ==
    IsReconcile =>
        /\ (ev.s1 = ev.s2 /\ ev.p1 >= ev.p2) =>
              /\ TierRank(ev.batch1) >= TierRank(ev.batch2)
              /\ TierRank(ev.single1) >= TierRank(ev.single2)
        /\ (ev.p1 = ev.p2 /\ ev.s1 >= ev.s2) =>
              /\ TierRank(ev.batch1) >= TierRank(ev.batch2)
              /\ TierRank(ev.single1) >= TierRank(ev.single2)

\* a strict rise: at the same probability score 9 is High and score 7 Moderate
C4_Witness ==
    /\ IsReconcile
    /\ ev.p1 = ev.p2 /\ ev.p1 = 4000
    /\ ev.s1 = 9 /\ ev.s2 = 7
    /\ ev.batch1 = High /\ ev.batch2 = Moderate
    /\ ev.single1 = High /\ ev.single2 = Moderate

----------------------------------------------------------------------------
(* Claims on the engine *)

Loaded == ~data.none
HasCol(c) == Loaded /\ c \in data.cols
Rows == DOMAIN data.rows

\* the classifier is unavailable: no model, or none trained or loaded
Unavailable == model = "None" \/ ~model_trained

\* run() returned self.data
RunCompleted == last.op = "run" /\ last.outcome = "ok" /\ last.ret = "data"

\* FinalRiskLevel was just computed from the columns the frame holds
Reconciled ==
    \/ (last.op = "hybrid_decision" /\ last.outcome = "ok")
    \/ RunCompleted

PredictedSingle == last.op = "predict_single" /\ last.outcome = "ok"

\* C2: degraded-mode equivalence. For every score the tier reconciled with
\* probability 0.0 is classify_risk(score); so with the classifier unavailable
\* FinalRiskLevel equals RiskLevel on every row, every row reconciled with
\* probability 0.0 keeps its rule tier, and predict_single without the
\* classifier returns final_level = rule_level.
C2_DegradedEquivalence ==
    /\ \A s \in Scores :
          combine(0, s) = classify_risk(s) /\ final_level(0, s) = classify_risk(s)
    /\ (Unavailable /\ HasCol("FinalRiskLevel")) =>
          \A i \in Rows : data.rows[i]["FinalRiskLevel"] = data.rows[i]["RiskLevel"]
    /\ Reconciled =>
          \A i \in Rows :
              get(Series(data.rows[i]), "ML_Risk_Probability", 0) = 0
                  => data.rows[i]["FinalRiskLevel"] = data.rows[i]["RiskLevel"]
    /\ (PredictedSingle /\ ~last.res.ml_available) =>
          /\ last.res.ml_probability = 0
          /\ last.res.final_level = last.res.rule_level

\* a run completed without a classifier whose frame holds a Moderate row
\* (score 6) and a High row (score 15), each final tier being the rule tier
C2_Witness ==
    /\ RunCompleted /\ Unavailable
    /\ \E i \in Rows, j \in Rows :
          /\ data.rows[i]["RiskScore"] = 6
          /\ data.rows[i]["ML_Risk_Probability"] = 0
          /\ data.rows[i]["FinalRiskLevel"] = Moderate
          /\ data.rows[j]["RiskScore"] = 15
          /\ data.rows[j]["FinalRiskLevel"] = High

\* the run's load_data succeeded
RunLoaded == trace # <<>> /\ trace[1] = Call("load_data", "True")

\* C5: a run whose dataset loaded always completes: it returns the frame with
\* one row per input record, each with a FinalRiskLevel among the three tiers
\* that is at least the rule tier; no error of the classifier's fit or
\* predict leaves run().
C5_RunAlwaysCompletes ==
    (last.op = "run" /\ RunLoaded) =>
        /\ last.outcome = "ok"
        /\ last.ret = "data"
        /\ Len(data.rows) = Len(csv.rows)
        /\ \A i \in Rows :
              /\ data.rows[i]["FinalRiskLevel"] \in Tiers
              /\ TierRank(data.rows[i]["FinalRiskLevel"])
                    >= TierRank(classify_risk(data.rows[i]["RiskScore"]))

\* the condition under which train_model skips training
SkipCond ==
    \/ "G3" \notin data.cols
    \/ \E j \in DOMAIN required_features : required_features[j] \notin data.cols

\* on a dataset without G3 or without one of the five feature columns
\* train_model returns False without raising and installs nothing: the model
\* is still None, or the one _load_model installed. With no model installed
\* (model_trained false) every ML_Risk_Probability written is 0.0, every
\* FinalRiskLevel written equals RiskLevel, and predict_single reports
\* ml_available false with final_level = rule_level.
C6_SkipsWithoutRaising ==
    (Loaded /\ SkipCond) =>
        /\ \A i \in DOMAIN trace :
              trace[i].call = "train_model" => trace[i].ret = "False"
        /\ last.op = "train_model" => (last.outcome = "ok" /\ last.ret = "False")
        /\ model = "None" \/ (model = disk /\ model \in Models /\ model_trained)
        /\ ~model_trained => model = "None"
        /\ (~model_trained /\ HasCol("ML_Risk_Probability")) =>
              \A i \in Rows : data.rows[i]["ML_Risk_Probability"] = 0
        /\ (~model_trained /\ HasCol("FinalRiskLevel")) =>
              \A i \in Rows : data.rows[i]["FinalRiskLevel"] = data.rows[i]["RiskLevel"]
        /\ (~model_trained /\ PredictedSingle) =>
              /\ ~last.res.ml_available
              /\ last.res.final_level = last.res.rule_level

\* the run that just ended skipped training: its train_model returned False
RunSkippedTraining ==
    /\ last.op = "run" /\ RunLoaded
    /\ \E i \in DOMAIN trace : trace[i] = Call("train_model", "False")

\* a run that skipped training goes on to the end in rule-only mode: it
\* returns the frame, in which every ML_Risk_Probability is 0.0 and every
\* FinalRiskLevel is the rule tier
C6_RunContinues ==
    RunSkippedTraining =>
        /\ RunCompleted
        /\ HasCol("ML_Risk_Probability") /\ HasCol("FinalRiskLevel")
        /\ ~model_trained =>
              \A i \in Rows :
                  /\ data.rows[i]["ML_Risk_Probability"] = 0
                  /\ data.rows[i]["FinalRiskLevel"] = data.rows[i]["RiskLevel"]

\* C6: when G3 or one of the feature columns failures, absences, studytime,
\* G1, G2 is missing, training is skipped without raising (train_model
\* returns False, no model is installed, model_trained stays false), and the
\* pipeline then continues in rule-only mode: the run completes with every
\* ML_Risk_Probability 0.0 and the final tier equal to the rule tier, and
\* predict_single reports ml_available false.
C6_TrainingSkipped == C6_SkipsWithoutRaising /\ C6_RunContinues

\* Scenario C: a run skipped training on a dataset without G3 and went on to
\* the end with probabilities 0.0; predict_single then gives a record of
\* score 6 Moderate Risk with ml_available false
C6_ScenarioC ==
    /\ Loaded /\ "G3" \notin data.cols
    /\ \E i \in DOMAIN trace : trace[i] = Call("train_model", "False")
    /\ trace[Len(trace)] = Call("generate_recommendations", "None")
    /\ ~model_trained /\ model = "None"
    /\ HasCol("ML_Risk_Probability") /\ HasCol("FinalRiskLevel")
    /\ \A i \in Rows : data.rows[i]["ML_Risk_Probability"] = 0
    /\ \E i \in Rows : data.rows[i]["FinalRiskLevel"] = High
    /\ PredictedSingle
    /\ last.res.rule_score = 6
    /\ last.res.final_level = Moderate
    /\ ~last.res.ml_available

\* a run on a dataset without studytime skipped training and ended in
\* apply_rules with KeyError('studytime')
C6_RunAborted ==
    /\ RunSkippedTraining /\ "studytime" \notin data.cols /\ "G2" \in data.cols
    /\ last.outcome = "KeyError" /\ last.ret = "studytime"
    /\ trace[Len(trace)] = Call("apply_rules", "raised")

CallsOf(name) == {i \in DOMAIN trace : trace[i].call = name}

\* the run in progress, or the one that just ended, has done its model setup
SetupDone == Len(trace) >= 2 /\ (pc \notin {"idle", "setup"} \/ last.op = "run")

\* C7, on the calls of a run: with train_new_model the setup is train_model
\* and no _load_model; without it the setup starts with _load_model, and
\* train_model follows exactly when _load_model returned False; a failed save
\* leaves the run going with the fitted model installed.
C7_SetupCalls ==
    SetupDone =>
        /\ trainNew =>
              /\ trace[2].call = "train_model"
              /\ CallsOf("_load_model") = {}
        /\ ~trainNew =>
              /\ trace[2].call = "_load_model"
              /\ trace[2].ret \in {"True", "False"}
              /\ trace[2].ret = "True" => CallsOf("train_model") = {}
              /\ trace[2].ret = "False" => CallsOf("train_model") = {3}
        /\ \A i \in CallsOf("_save_model") :
              /\ trace[i - 1] = Call("train_model", "True")
              /\ trace[i].ret \in {"fail", "partial"} =>
                    /\ pc # "idle" \/ Len(trace) > i
                    /\ model_trained /\ model \in Models
                    /\ \A k \in CallsOf("apply_ml_predictions") :
                          \A r \in Rows :
                              data.rows[r]["ML_Risk_Probability"] =
                                  predict_proba(model,
                                      [j \in DOMAIN required_features |->
                                          data.rows[r][required_features[j]]])

\* C7, on the setup step itself: without train_new_model the load succeeds
\* exactly when model_path holds a readable model, which is then the model in
\* use and nothing is written; when it holds none or an unreadable one the
\* failure does not leave run() and training is attempted.
C7_SetupStep ==
    (pc = "setup" /\ pc' # "setup" /\ ~trainNew) =>
        /\ trace'[2] = Call("_load_model", Bool(disk \in Models))
        /\ disk \in Models =>
              (model' = disk /\ model_trained' /\ disk' = disk /\ pc' = "rules")
        /\ disk \notin Models => trace'[3].call = "train_model"

\* C7: model-setup branching of run().
C7_ModelSetup == [](C7_SetupCalls) /\ [][C7_SetupStep]_vars

\* a run without train_new_model found no usable persisted model, trained,
\* failed to save, and completed with the fitted model's probabilities
C7_Witness ==
    /\ RunCompleted /\ ~trainNew
    /\ trace[2] = Call("_load_model", "False")
    /\ trace[3] = Call("train_model", "True")
    /\ trace[4] = Call("_save_model", "fail")
    /\ model \in Models /\ model_trained /\ disk \notin Models
    /\ \E i \in Rows : data.rows[i]["ML_Risk_Probability"] > 0

SetupCalls == {"_load_model", "train_model", "_save_model"}

StageOrder ==
    <<"load_data", "apply_rules", "apply_ml_predictions", "hybrid_decision",
      "generate_recommendations">>

IsStageCall(e) == e.call \notin SetupCalls

\* the stages of the run, in the order they were called
StagesCalled ==
    LET st == SelectSeq(trace, IsStageCall) IN [i \in DOMAIN st |-> st[i].call]

\* where run() stands after each stage
PcAfter(call) ==
    IF call = "load_data" THEN "setup"
    ELSE IF call \in SetupCalls THEN "rules"
    ELSE IF call = "apply_rules" THEN "ml"
    ELSE IF call = "apply_ml_predictions" THEN "hybrid"
    ELSE IF call = "hybrid_decision" THEN "recs"
    ELSE "idle"

\* C8: run() calls load_data, the model setup, apply_rules,
\* apply_ml_predictions, hybrid_decision and generate_recommendations in that
\* order, each after the previous one returned; a run that returns the frame
\* went through all of them; after a failed load run() returns None and
\* calls nothing else.
C8_StageOrder ==
    /\ Len(StagesCalled) <= Len(StageOrder)
    /\ StagesCalled = SubSeq(StageOrder, 1, Len(StagesCalled))
    /\ \A i \in DOMAIN trace :
          /\ trace[i].call \in SetupCalls =>
                \A j \in 1 .. (i - 1) : trace[j].call \in SetupCalls \cup {"load_data"}
          /\ i < Len(trace) =>
                (trace[i].ret # "raised" /\ trace[i] # Call("load_data", "False"))
    /\ (trace # <<>> /\ trace[1] = Call("load_data", "False")) =>
          /\ Len(trace) = 1
          /\ pc = "idle"
          /\ last.op = "run" => (last.outcome = "ok" /\ last.ret = "None")
    /\ pc # "idle" =>
          /\ trace # <<>>
          /\ trace[Len(trace)].ret # "raised"
          /\ pc = PcAfter(trace[Len(trace)].call)
    /\ RunCompleted =>
          /\ StagesCalled = StageOrder
          /\ SetupCalls \cap {trace[i].call : i \in DOMAIN trace} # {}
          /\ trace[2].call \in SetupCalls

\* a run that went through every stage and returned the frame
C8_Witness ==
    /\ RunCompleted
    /\ StagesCalled = StageOrder
    /\ HasCol("Recommendations")

\* C9: predict_single on a record without G2 or without absences raises an
\* error naming the first missing required field, substituting no default,
\* and raises for no other reason.
C9_MissingRequiredFieldRaises ==
    last.op = "predict_single" =>
        LET f == last.arg.f
            lacks == {"G2", "absences"} \ DOMAIN f
        IN /\ lacks # {} =>
                /\ last.outcome # "ok"
                /\ last.ret = (IF "G2" \in lacks THEN "G2" ELSE "absences")
           /\ lacks = {} => last.outcome = "ok"

\* C10: a mapping and a row holding the same fields get the same sub-scores,
\* total and tier, and with G2 and absences present neither raises, whichever
\* optional fields are missing.
C10_UniformExtraction ==
    (ev.kind = "score" /\ {"G2", "absences"} \subseteq DOMAIN ev.f) =>
        /\ ev.dict.total.ok
        /\ ev.series.total.ok
        /\ ev.series = ev.dict

----------------------------------------------------------------------------
(* Claims on the rule scorer *)

IsScore == ev.kind = "score"

\* both shapes of the evaluated record
BothShapes == {ev.dict, ev.series}

\* C11: for a record holding G2, aps_adjustment returns 4 exactly when
\* G2 < 10, 2 exactly when 10 <= G2 <= 11 and 0 exactly when G2 > 11, and
\* every G2 lies in exactly one of the three bands.
C11_ApsBands ==
    (IsScore /\ "G2" \in DOMAIN ev.f) =>
        LET g2 == ev.f["G2"]
            failing == g2 < 10
            borderline == 10 <= g2 /\ g2 <= 11
            passing == g2 > 11
        IN /\ \A s \in BothShapes :
                /\ s.aps.ok
                /\ (s.aps.val = 4) <=> failing
                /\ (s.aps.val = 2) <=> borderline
                /\ (s.aps.val = 0) <=> passing
           /\ failing \/ borderline \/ passing
           /\ ~(failing /\ borderline) /\ ~(borderline /\ passing)
           /\ ~(failing /\ passing)

\* G2 = 10, the lower edge of the middle band, scored 2 on both shapes
C11_Witness ==
    /\ IsScore /\ "G2" \in DOMAIN ev.f
    /\ ev.f["G2"] = 10
    /\ ev.dict.aps = Ok(2) /\ ev.series.aps = Ok(2)

\* C12: for a record holding absences, attendance_risk returns 3 when
\* absences > 15, 1 when 5 <= absences <= 15 and 0 when absences < 5; so 15
\* gives 1, 16 gives 3, 5 gives 1 and 4 gives 0.
C12_AttendanceBands ==
    (IsScore /\ "absences" \in DOMAIN ev.f) =>
        LET absences == ev.f["absences"] IN
        \A s \in BothShapes :
            /\ s.ars.ok
            /\ absences > 15 => s.ars.val = 3
            /\ (5 <= absences /\ absences <= 15) => s.ars.val = 1
            /\ absences < 5 => s.ars.val = 0
            /\ absences = 15 => s.ars.val = 1
            /\ absences = 16 => s.ars.val = 3
            /\ absences = 5 => s.ars.val = 1
            /\ absences = 4 => s.ars.val = 0

\* absences = 15, the upper edge of the middle band, scored 1 on both shapes
C12_Witness ==
    /\ IsScore /\ "absences" \in DOMAIN ev.f
    /\ ev.f["absences"] = 15
    /\ ev.dict.ars = Ok(1) /\ ev.series.ars = Ok(1)

FamilyFields == {"famsup", "Medu", "Fedu"}
LifestyleFields == {"Dalc", "Walc", "goout", "studytime"}

\* C13: for a record holding the family and lifestyle fields, FSR is 2 for
\* famsup = 'no' plus 1 for Medu + Fedu <= 4, and LRS is 2 for
\* Dalc + Walc >= 8 plus 1 for goout >= 4 plus 2 for studytime = 1; each
\* increment is decided by its own field alone, FSR is in 0..3 and LRS in
\* 0..5, Medu + Fedu = 5 adds nothing and Dalc + Walc = 7 adds nothing.
C13_IndependentIncrements ==
    (IsScore /\ (FamilyFields \cup LifestyleFields) \subseteq DOMAIN ev.f) =>
        LET f == ev.f
            nosup == IF f["famsup"] = "no" THEN 2 ELSE 0
            lowedu == IF 2 * 2 >= f["Medu"] + f["Fedu"] THEN 1 ELSE 0
            alcohol == IF f["Dalc"] + f["Walc"] >= 2 * 4 THEN 2 ELSE 0
            outings == IF f["goout"] >= 4 THEN 1 ELSE 0
            nostudy == IF f["studytime"] = 1 THEN 2 ELSE 0
        IN \A s \in BothShapes :
            /\ s.fsr = Ok(nosup + lowedu)
            /\ s.lrs = Ok(alcohol + outings + nostudy)
            /\ s.fsr.val \in 0 .. 3
            /\ s.lrs.val \in 0 .. 5
            /\ f["Medu"] + f["Fedu"] = 5 => s.fsr.val = nosup
            /\ f["Dalc"] + f["Walc"] = 7 => s.lrs.val = outings + nostudy

\* Medu + Fedu = 5 and Dalc + Walc = 7 with every other increment fired:
\* FSR = 2 and LRS = 3
C13_Witness ==
    /\ IsScore /\ (FamilyFields \cup LifestyleFields) \subseteq DOMAIN ev.f
    /\ ev.f["Medu"] + ev.f["Fedu"] = 5 /\ ev.f["famsup"] = "no"
    /\ ev.f["Dalc"] + ev.f["Walc"] = 7 /\ ev.f["goout"] >= 4
    /\ ev.f["studytime"] = 1
    /\ ev.dict.fsr = Ok(2) /\ ev.dict.lrs = Ok(3)
    /\ ev.series.fsr = Ok(2) /\ ev.series.lrs = Ok(3)

\* the records of test_rule_scoring
ScenarioBDict == Dict(Without(ScenarioB, {"G1", "G3"}))

\* C14: whenever compute_total_risk returns, its value is
\* APS + ARS + FSR + LRS and lies in 0..15; Scenario A scores 15 and is High
\* Risk, Scenario B scores 0 and is Low Risk.
C14_TotalIsSum ==
    /\ compute_total_risk(ScenarioADict) = Ok(15)
    /\ compute_total_risk(ScenarioBDict) = Ok(0)
    /\ IsScore =>
        \A s \in BothShapes :
            s.total.ok =>
                /\ s.aps.ok /\ s.ars.ok /\ s.fsr.ok /\ s.lrs.ok
                /\ s.total.val = s.aps.val + s.ars.val + s.fsr.val + s.lrs.val
                /\ s.total.val \in 0 .. MaxScore
                /\ ev.f = ScenarioA => (s.total.val = MaxScore /\ s.level = High)
                /\ ev.f = ScenarioB => (s.total.val = 0 /\ s.level = Low)

\* Scenario A scored: 4 + 3 + 3 + 5 = 15, High Risk
C14_Witness ==
    /\ IsScore /\ ev.f = ScenarioA
    /\ ev.dict.aps = Ok(4) /\ ev.dict.ars = Ok(3)
    /\ ev.dict.fsr = Ok(3) /\ ev.dict.lrs = Ok(5)
    /\ ev.dict.total = Ok(15) /\ ev.dict.level = High

IsClassify == ev.kind = "classify"

\* C15: classify_risk gives High Risk exactly for scores of at least 8,
\* Moderate Risk exactly for scores 4..7 and Low Risk exactly for scores
\* below 4, and raising one sub-score with the others fixed never lowers the
\* tier.
C15_ClassifyBands ==
    /\ IsScore =>
        \A s \in BothShapes :
            s.total.ok =>
                /\ (s.level = High) <=> s.total.val >= 8
                /\ (s.level = Moderate) <=> (4 <= s.total.val /\ s.total.val <= 7)
                /\ (s.level = Low) <=> s.total.val < 4
    /\ IsClassify =>
        /\ (ev.level1 = High) <=> ev.score1 >= 8
        /\ (ev.level1 = Moderate) <=> (4 <= ev.score1 /\ ev.score1 <= 7)
        /\ (ev.level1 = Low) <=> ev.score1 < 4
        /\ ev.score2 > ev.score1
        /\ TierRank(ev.level2) >= TierRank(ev.level1)

\* raising the attendance sub-score from 0 to 1 takes a total of 7, Moderate
\* Risk, to 8, High Risk
C15_Witness ==
    /\ IsClassify
    /\ ev.subs[2] = 0 /\ ev.raised[2] = 1
    /\ ev.score1 = 7 /\ ev.level1 = Moderate
    /\ ev.score2 = 8 /\ ev.level2 = High

----------------------------------------------------------------------------
(* Claims on the recommendation synthesizer *)

IsRecs == ev.kind = "recs"

\* the lists built for the mapping and for the row
BothLists == {ev.dict, ev.series}

\* the messages in the order the function appends them
RecOrder ==
    <<"critical_attendance", "monitor_attendance", "remediation",
      "academic_support", "study_skills", "tutoring", "parental_engagement",
      "urgent_counselor", "contact_guardians", "regular_monitoring",
      "continue_trajectory">>

FactorIds ==
    {"critical_attendance", "monitor_attendance", "remediation",
     "academic_support", "study_skills", "tutoring", "parental_engagement"}

Pos(id) == CHOOSE i \in DOMAIN RecOrder : RecOrder[i] = id

Holds(recs, id) == \E i \in DOMAIN recs : recs[i].id = id

Count(recs, ids) == Cardinality({i \in DOMAIN recs : recs[i].id \in ids})

\* every message is a known one and they stand in appending order, none twice
InOrder(recs) ==
    /\ \A i \in DOMAIN recs : \E k \in DOMAIN RecOrder : RecOrder[k] = recs[i].id
    /\ \A i, j \in DOMAIN recs : i < j => Pos(recs[i].id) < Pos(recs[j].id)

RecFields == {"absences", "failures", "studytime", "G2", "famsup"}

\* C16: for a record holding the five fields read, the list is in the order
\* attendance, failures, study time, grade, family support, tier closer, and
\* each message is present exactly when its condition holds: critical
\* attendance iff absences > 15, monitoring iff 5 < absences <= 15 (none at
\* absences = 5), remediation iff failures > 1, support iff failures = 1,
\* study skills iff studytime = 1, tutoring iff G2 < 10, parental engagement
\* iff famsup = 'no'; High Risk ends with counselor then guardians, Moderate
\* Risk with one monitoring message; at most one attendance and at most one
\* failures message.
C16_RecommendationOrder ==
    (IsRecs /\ RecFields \subseteq DOMAIN ev.f) =>
        LET f == ev.f IN
        \A recs \in BothLists :
            /\ InOrder(recs)
            /\ Holds(recs, "critical_attendance") <=> f["absences"] > 15
            /\ Holds(recs, "monitor_attendance")
                  <=> (5 < f["absences"] /\ f["absences"] <= 15)
            /\ f["absences"] = 5 =>
                  Count(recs, {"critical_attendance", "monitor_attendance"}) = 0
            /\ Holds(recs, "remediation") <=> f["failures"] > 1
            /\ Holds(recs, "academic_support") <=> f["failures"] = 1
            /\ Holds(recs, "study_skills") <=> f["studytime"] = 1
            /\ Holds(recs, "tutoring") <=> f["G2"] < 10
            /\ Holds(recs, "parental_engagement") <=> f["famsup"] = "no"
            /\ Holds(recs, "urgent_counselor") <=> ev.risk_level = High
            /\ Holds(recs, "contact_guardians") <=> ev.risk_level = High
            /\ Holds(recs, "regular_monitoring") <=> ev.risk_level = Moderate
            /\ ev.risk_level = High =>
                  /\ Len(recs) >= 2
                  /\ recs[Len(recs) - 1] = Msg("urgent_counselor")
                  /\ recs[Len(recs)] = Msg("contact_guardians")
            /\ ev.risk_level = Moderate =>
                  /\ Len(recs) >= 1
                  /\ recs[Len(recs)] = Msg("regular_monitoring")
            /\ Count(recs, {"critical_attendance", "monitor_attendance"}) <= 1
            /\ Count(recs, {"remediation", "academic_support"}) <= 1

\* the record of test_recommendations at Moderate Risk: five factor messages
\* in order, then the monitoring message
C16_Witness ==
    /\ IsRecs /\ ev.f = RecStudent /\ ev.risk_level = Moderate
    /\ ev.dict = <<Msg("monitor_attendance"), Msg("remediation"),
                   Msg("study_skills"), Msg("tutoring"),
                   Msg("parental_engagement"), Msg("regular_monitoring")>>
    /\ ev.series = ev.dict

\* C17: the default message never stands with another message and never in
\* a Moderate or High list; in a Low Risk list it is present exactly when no
\* factor message is, and Scenario B at Low Risk gets the default message
\* alone.
C17_DefaultSuppression ==
    IsRecs =>
        \A recs \in BothLists :
            /\ Holds(recs, "continue_trajectory") =>
                  /\ recs = <<Msg("continue_trajectory")>>
                  /\ ev.risk_level \notin {High, Moderate}
            /\ ev.risk_level = Low =>
                  (Holds(recs, "continue_trajectory") <=> Count(recs, FactorIds) = 0)
            /\ (ev.risk_level = Low /\ ev.f = ScenarioB) =>
                  recs = <<Msg("continue_trajectory")>>

\* Scenario B at Low Risk: exactly the default message
C17_Witness ==
    /\ IsRecs /\ ev.f = ScenarioB /\ ev.risk_level = Low
    /\ ev.dict = <<Msg("continue_trajectory")>>
    /\ ev.series = <<Msg("continue_trajectory")>>

\* C19: the list is never empty, whatever the record and the risk_level
\* argument: at least two messages for High Risk, at least one for Moderate
\* Risk and at least one for anything else.
C19_NeverEmpty ==
    IsRecs =>
        \A recs \in BothLists :
            /\ Len(recs) >= 1
            /\ ev.risk_level = High => Len(recs) >= 2
            /\ ev.risk_level = Moderate => Len(recs) >= 1

\* a risk_level that is no tier name, on a record that triggers no factor:
\* one message
C19_Witness ==
    /\ IsRecs /\ ev.risk_level \notin Tiers /\ ev.f = ScenarioB
    /\ Len(ev.dict) = 1 /\ Len(ev.series) = 1

----------------------------------------------------------------------------
(* Claims on the recommendations of the engine *)

\* the ML-confidence message of the batch stage and of predict_single
IsMLNote(m) == m.id \in {"ml_note_close_monitoring", "ml_note"}

EndsWithNote(recs) == Len(recs) >= 1 /\ IsMLNote(recs[Len(recs)])

\* no ML note anywhere in the list
NoNote(recs) == \A i \in DOMAIN recs : ~IsMLNote(recs[i])

\* the list without its last element
Front(recs) == SubSeq(recs, 1, Len(recs) - 1)

\* the Recommendations column was just computed from the columns of the frame
Recommended ==
    \/ (last.op = "generate_recommendations" /\ last.outcome = "ok")
    \/ RunCompleted

\* the classifier cannot predict on the frame: none fitted, or a feature
\* column is missing
PredictionFails ==
    \/ model \notin Models
    \/ ~model_trained
    \/ \E j \in DOMAIN required_features : ~HasCol(required_features[j])

\* C18: the ML-confidence message is the last element of the list, after the
\* messages recommend_intervention built, exactly when the probability is
\* strictly above 0.7, in the batch stage and in predict_single; it carries
\* the percentage rounded to one decimal, and it is absent when the
\* classifier is unavailable or its prediction failed.
C18_MLNoteLast ==
    /\ Recommended =>
          \A i \in Rows :
              LET row == Series(data.rows[i])
                  recs == data.rows[i]["Recommendations"]
                  p == get(row, "ML_Risk_Probability", 0)
                  built == recommend_intervention(row, data.rows[i]["FinalRiskLevel"])
              IN /\ EndsWithNote(recs) <=> p > 7000
                 /\ p > 7000 =>
                       /\ Front(recs) = built
                       /\ recs[Len(recs)].pct = Round1(p)
                 /\ p <= 7000 => recs = built
                 /\ NoNote(built)
                 /\ p = 7004 => recs[Len(recs)].pct = 700
                 /\ p = 9350 => recs[Len(recs)].pct = 935
    /\ (Unavailable /\ HasCol("Recommendations")) =>
          \A i \in Rows : NoNote(data.rows[i]["Recommendations"])
    /\ (RunCompleted /\ PredictionFails) =>
          \A i \in Rows : NoNote(data.rows[i]["Recommendations"])
    /\ PredictedSingle =>
          LET r == last.res
              recs == r.recommendations
              built == recommend_intervention(last.arg, r.final_level)
          IN /\ EndsWithNote(recs) <=> (r.ml_available /\ r.ml_probability > 7000)
             /\ EndsWithNote(recs) =>
                   /\ Front(recs) = built
                   /\ recs[Len(recs)].pct = Round1(r.ml_probability)
             /\ ~EndsWithNote(recs) => recs = built
             /\ NoNote(built)
             /\ ~r.ml_available => NoNote(recs)

\* a completed run whose frame holds a row at probability exactly 0.7 without
\* the note and a row above 0.7 whose list ends with the note, after the
\* High Risk closer
C18_Witness ==
    /\ RunCompleted
    /\ \E i \in Rows, j \in Rows :
          /\ data.rows[i]["ML_Risk_Probability"] = 7000
          /\ NoNote(data.rows[i]["Recommendations"])
          /\ data.rows[j]["ML_Risk_Probability"] > 7000
          /\ LET recs == data.rows[j]["Recommendations"] IN
                /\ Len(recs) >= 3
                /\ recs[Len(recs)].id = "ml_note_close_monitoring"
                /\ recs[Len(recs)].pct = Round1(data.rows[j]["ML_Risk_Probability"])
                /\ recs[Len(recs) - 1] = Msg("contact_guardians")

----------------------------------------------------------------------------
(* Claims on re-invoking the stages *)

StageNames ==
    {"apply_rules", "apply_ml_predictions", "hybrid_decision",
     "generate_recommendations"}

\* the four stages, in run()'s order, on frame d with the engine's model;
\* the frame they leave, or d itself when one of them raises
Pipeline(d) ==
    LET r1 == apply_rules(d)
        r2 == apply_ml_predictions(r1.data, model, model_trained)
        r3 == hybrid_decision(r2.data, model_trained)
        r4 == generate_recommendations(r3.data)
    IN IF r1.outcome = "ok" /\ r2.outcome = "ok" /\ r3.outcome = "ok"
          /\ r4.outcome = "ok"
       THEN r4.data ELSE d

\* a stage that just returned is called again, from outside run()
StageAgain ==
    /\ pc = "idle" /\ pc' = "idle"
    /\ last.op \in StageNames /\ last.outcome = "ok"
    /\ last'.op = last.op

\* re-invoking a stage leaves the frame as it was: it returns again and every
\* column keeps its values
C20_StageStep == StageAgain => (last'.outcome = "ok" /\ data' = data)

\* after a completed run the frame is what the four stages make of the
\* loaded file with the engine's model, and running the four stages over it
\* once more changes nothing
C20_RunFixpoint ==
    RunCompleted =>
        /\ data = Pipeline(load_data(csv, data).data)
        /\ Pipeline(data) = data

\* C20: every stage is idempotent: calling apply_rules,
\* apply_ml_predictions, hybrid_decision or generate_recommendations again
\* on the unchanged frame and model leaves RiskScore, RiskLevel,
\* ML_Risk_Probability, FinalRiskLevel and Recommendations as they were, and
\* so does the whole sequence and run() itself.
C20_Idempotent == [](C20_RunFixpoint) /\ [][C20_StageStep]_vars

\* apply_rules called on a frame that already holds every derived column,
\* Recommendations included: the scores are the recomputed ones
C20_Witness ==
    /\ last.op = "apply_rules" /\ last.outcome = "ok"
    /\ HasCol("Recommendations") /\ HasCol("RiskScore")
    /\ \A i \in Rows :
          data.rows[i]["RiskScore"] = compute_total_risk(Series(data.rows[i])).val
    /\ \E i \in Rows : data.rows[i]["RiskScore"] = 15

----------------------------------------------------------------------------
(* Claims on the queries *)

Queried(op) == last.op = op /\ last.outcome = "ok"

\* the elements of a sequence
Range(q) == {q[i] : i \in DOMAIN q}

\* q lists every member of S once, all High Risk records before every
\* Moderate Risk record and, within a tier, in non-increasing score
AtRiskOrder(q, S, tier, score) ==
    /\ Range(q) = S
    /\ Len(q) = Cardinality(S)
    /\ \A i, j \in DOMAIN q :
          i < j =>
              /\ ~(tier[q[i]] = Moderate /\ tier[q[j]] = High)
              /\ tier[q[i]] = tier[q[j]] => score[q[i]] >= score[q[j]]

\* what StudentDSS makes of the rows of the file
RuleOnly == analyze_all_students(load_data(csv, NoData).data)

\* C21: get_at_risk_students returns exactly the records whose tier is
\* Moderate Risk or High Risk, every High Risk record before every Moderate
\* Risk record and each tier in non-increasing rule score; for the hybrid
\* engine the tier is FinalRiskLevel, for StudentDSS the rule tier.
C21_AtRiskFilterAndOrder ==
    /\ (Queried("get_at_risk_students") /\ Loaded) =>
          AtRiskOrder(last.res.index,
                      {i \in Rows : data.rows[i]["FinalRiskLevel"] \in {High, Moderate}},
                      [i \in Rows |-> data.rows[i]["FinalRiskLevel"]],
                      [i \in Rows |-> data.rows[i]["RiskScore"]])
    /\ Queried("StudentDSS.get_at_risk_students") =>
          AtRiskOrder(last.res.index,
                      {i \in DOMAIN RuleOnly : RuleOnly[i].risk_level \in {High, Moderate}},
                      [i \in DOMAIN RuleOnly |-> RuleOnly[i].risk_level],
                      [i \in DOMAIN RuleOnly |-> RuleOnly[i].total_risk_score])

\* three records returned: a High Risk record of score 15, then a record of
\* score below 8 the classifier raised to High Risk, then a Moderate Risk one
C21_Witness ==
    /\ Queried("get_at_risk_students") /\ HasCol("FinalRiskLevel")
    /\ Len(last.res.index) = 3
    /\ LET q == last.res.index IN
          /\ data.rows[q[1]]["FinalRiskLevel"] = High
          /\ data.rows[q[1]]["RiskScore"] = 15
          /\ data.rows[q[2]]["FinalRiskLevel"] = High
          /\ data.rows[q[2]]["RiskScore"] < 8
          /\ data.rows[q[3]]["FinalRiskLevel"] = Moderate

\* p, in tenths of a percent, is count / total * 100 rounded to one decimal
NearestPct(p, count, total) ==
    IF total = 0 THEN p = 0
    ELSE 2 * (p * total - count * 1000) <= total
         /\ 2 * (count * 1000 - p * total) <= total

\* the counts and percentages of summary r agree with the tiers in levels
SummaryAgrees(r, levels) ==
    /\ r.total_students = Len(levels)
    /\ r.high_risk = Cardinality({i \in DOMAIN levels : levels[i] = High})
    /\ r.moderate_risk = Cardinality({i \in DOMAIN levels : levels[i] = Moderate})
    /\ r.low_risk = Cardinality({i \in DOMAIN levels : levels[i] = Low})
    /\ r.high_risk + r.moderate_risk + r.low_risk = r.total_students
    /\ NearestPct(r.high_risk_pct, r.high_risk, r.total_students)
    /\ NearestPct(r.moderate_risk_pct, r.moderate_risk, r.total_students)
    /\ NearestPct(r.low_risk_pct, r.low_risk, r.total_students)

\* C22: once the final tiers are computed, get_summary_statistics counts the
\* records of each final tier, the three counts add up to total_students,
\* each percentage is count / total * 100 rounded to one decimal, and it is
\* 0 for an empty dataset; the same for StudentDSS on its rule tiers.
C22_SummaryPartition ==
    /\ (Queried("get_summary_statistics") /\ Loaded) =>
          SummaryAgrees(last.res, Column(data, "FinalRiskLevel"))
    /\ Queried("StudentDSS.get_summary_statistics") =>
          SummaryAgrees(last.res, [i \in DOMAIN RuleOnly |-> RuleOnly[i].risk_level])

\* three records, two High Risk and one Moderate Risk: 66.7 %, 33.3 %, 0 %
C22_Witness ==
    /\ Queried("get_summary_statistics") /\ Loaded
    /\ last.res.total_students = 3
    /\ last.res.high_risk = 2 /\ last.res.high_risk_pct = 667
    /\ last.res.moderate_risk = 1 /\ last.res.moderate_risk_pct = 333
    /\ last.res.low_risk = 0 /\ last.res.low_risk_pct = 0

\* the summary of an empty dataset after a completed run: all zero
C22_EmptyReached ==
    /\ Queried("get_summary_statistics") /\ Loaded
    /\ last.res.total_students = 0 /\ last.res.high_risk_pct = 0

\* no classifier can predict on the frame: a feature column is missing or
\* there is no row, so every ML_Risk_Probability it holds was forced to 0.0
NoPrediction ==
    \/ \E j \in DOMAIN required_features : ~HasCol(required_features[j])
    \/ Rows = {}

\* C23: ml_enabled tells whether the classifier was active for the results
\* summarised: it is false when the ML_Risk_Probability values of the
\* dataset were forced to 0.0, and when it is false they are all 0.0.
C23_MLEnabledTruthful ==
    (Queried("get_summary_statistics") /\ HasCol("ML_Risk_Probability")) =>
        /\ NoPrediction => ~last.res.ml_enabled
        /\ ~last.res.ml_enabled =>
              \A i \in Rows : data.rows[i]["ML_Risk_Probability"] = 0

----------------------------------------------------------------------------
(* Claims on the single-record operation *)

\* a step that is a call of predict_single
PredictStep == last' # last /\ last'.op = "predict_single"

\* the call leaves the dataset, the classifier, the trained flag, the model
\* file and the position of run() as they were
C24_NoStateChange ==
    PredictStep =>
        /\ data' = data /\ model' = model /\ model_trained' = model_trained
        /\ disk' = disk /\ csv' = csv /\ pc' = pc /\ trace' = trace

\* a second call right after a first one, with the same record, returns the
\* same result
C24_SameAgain ==
    (last.op = "predict_single" /\ last'.op = "predict_single"
        /\ last'.arg = last.arg) => last' = last

\* whatever happened before the call, its result is the one the record and
\* the classifier in place determine
C24_ResultOfRecordAndModel ==
    last.op = "predict_single" =>
        LET r == predict_single(last.arg, model, model_trained) IN
        /\ last.outcome = r.outcome
        /\ r.outcome = "ok" => last.res = r

\* C24: predict_single is stateless: a call leaves data, model and
\* model_trained unchanged, and two calls with the same record and the same
\* model return equal results.
C24_Stateless ==
    /\ [][C24_NoStateChange /\ C24_SameAgain]_vars
    /\ [](C24_ResultOfRecordAndModel)

\* a call answered by the classifier on an engine that holds a scored dataset
C24_Witness ==
    /\ Queried("predict_single") /\ last.res.ml_available
    /\ last.res.ml_probability > 7000
    /\ HasCol("FinalRiskLevel") /\ model_trained

\* twice the median of a non-empty column of numbers
Median2(col) ==
    LET n == Len(col)
        p == CHOOSE q \in Perms(DOMAIN col) :
                \A i, j \in DOMAIN q : i < j => col[q[i]] <= col[q[j]]
    IN IF n % 2 = 1 THEN 2 * col[p[(n + 1) \div 2]]
       ELSE col[p[n \div 2]] + col[p[(n \div 2) + 1]]

\* the classifier in place was fitted by train_model on the rows of the
\* dataset (the model file found at construction holds "m3")
TrainedOnDataset ==
    /\ model \in {"m1", "m2"} /\ model_trained /\ Rows # {}
    /\ \A j \in DOMAIN required_features : HasCol(required_features[j])

\* C25: the value substituted for a missing classifier feature at prediction
\* time is the median of that feature over the training dataset: a feature
\* the record of predict_single lacks enters the feature vector as the
\* training median.
C25_TrainingMedianReused ==
    (Queried("predict_single") /\ last.res.ml_available /\ TrainedOnDataset) =>
        \A j \in DOMAIN required_features :
            required_features[j] \notin DOMAIN last.arg.f =>
                2 * single_features(last.arg)[j]
                    = Median2(Column(data, required_features[j]))

----------------------------------------------------------------------------
(* Claims on the classifier's lifecycle *)

\* C26: model_trained = true implies the model the engine holds is
\* completely fitted or loaded, so that a probability query never reaches an
\* unfitted model.
C26_TrainedImpliesFitted == model_trained => model \in Models

----------------------------------------------------------------------------
(* Claims on the forward-chaining engine *)

ExpertDone == ev.kind = "expert" /\ ev.phase = "done"

\* C27: for a complete record the forward-chaining engine ends with the APS,
\* ARS, FSR and LRS that aps_adjustment, attendance_risk,
\* family_support_risk and lifestyle_risk return, the same total and the
\* tier classify_risk gives it; no rule fires more than once in an
\* evaluation, and an evaluation starts from zero whatever the one before
\* it left.
C27_EnginesAgree ==
    /\ ev.kind = "expert" =>
          /\ \A r \in RuleNames : ev.fired[r] <= 1
          /\ (\A r \in RuleNames : ev.fired[r] = 0) => ev.risk_scores = ZeroScores
    /\ ExpertDone =>
          \A row \in {Dict(ev.f), Series(ev.f)} :
              /\ ev.risk_scores.APS = aps_adjustment(row).val
              /\ ev.risk_scores.ARS = attendance_risk(row).val
              /\ ev.risk_scores.FSR = family_support_risk(row).val
              /\ ev.risk_scores.LRS = lifestyle_risk(row).val
              /\ calculate_total_risk(ev.risk_scores) = compute_total_risk(row).val
              /\ ev.risk_level = classify_risk(compute_total_risk(row).val)
              /\ evaluate_risk(row).risk_scores = ev.risk_scores
              /\ evaluate_risk(row).risk_level = ev.risk_level

\* the second evaluation of an engine run, on a record at the lower edge of
\* the middle bands (G2 = 10, absences = 5), after all its rules fired
C27_Witness ==
    /\ ExpertDone /\ ev.n = 2
    /\ ev.f["G2"] = 10 /\ ev.f["absences"] = 5
    /\ ev.fired["concerning_academic_performance"] = 1
    /\ ev.fired["moderate_absences"] = 1
    /\ ev.fired["no_support_struggling"] = 1
    /\ ev.risk_scores = [APS |-> 2, ARS |-> 1, FSR |-> 3, LRS |-> 5]
    /\ ev.risk_level = High

----------------------------------------------------------------------------
(* Claims relating the batch pipeline and predict_single *)

\* row i of the dataset holds the twelve fields of the record predict_single
\* was given
SameRecord(i, student) ==
    /\ AllFields \subseteq data.cols
    /\ DOMAIN student.f = AllFields
    /\ \A k \in AllFields : data.rows[i][k] = student.f[k]

\* a call of predict_single right after a completed run(), with the
\* classifier that run() used
SingleAfterRun ==
    /\ RunCompleted /\ model \in Models /\ model_trained
    /\ last'.op = "predict_single" /\ last'.outcome = "ok"

\* rule score, rule tier and final tier of the two paths agree
C28_ScoresAndTiersStep ==
    SingleAfterRun =>
        \A i \in Rows :
            SameRecord(i, last'.arg) =>
                /\ last'.res.rule_score = data.rows[i]["RiskScore"]
                /\ last'.res.rule_level = data.rows[i]["RiskLevel"]
                /\ last'.res.ml_probability = data.rows[i]["ML_Risk_Probability"]
                /\ last'.res.final_level = data.rows[i]["FinalRiskLevel"]

C28_ScoresAndTiersAgree == [][C28_ScoresAndTiersStep]_vars

C28_Step ==
    SingleAfterRun =>
        \A i \in Rows :
            SameRecord(i, last'.arg) =>
                /\ last'.res.rule_score = data.rows[i]["RiskScore"]
                /\ last'.res.rule_level = data.rows[i]["RiskLevel"]
                /\ last'.res.final_level = data.rows[i]["FinalRiskLevel"]
                /\ last'.res.recommendations = data.rows[i]["Recommendations"]

\* C28: for a record with all twelve fields and the same ready model,
\* predict_single returns the rule score, the rule tier, the final tier and
\* the recommendation list that the batch pipeline produced for that record
\* as a row of the dataset.
C28_BatchSingleAgree == [][C28_Step]_vars

\* where the list holds the ML note, the tier is High Risk and the counselor
\* and the contact-guardians messages stand before the note
NoteOnlyOnUrgentHigh(recs, final) ==
    \A n \in DOMAIN recs :
        IsMLNote(recs[n]) =>
            /\ final = High
            /\ \E a, b \in DOMAIN recs :
                  /\ a < n /\ b < n
                  /\ recs[a].id = "urgent_counselor"
                  /\ recs[b].id = "contact_guardians"

\* a probability in (0.65, 0.7] makes the record High Risk without the note
SilentEscalation(prob, recs, final) ==
    (6500 < prob /\ prob <= 7000) => (final = High /\ NoNote(recs))

\* the final tier of the row is the reconciliation of the probability and
\* the rule score the row holds now
RowReconciled(row) ==
    /\ {"FinalRiskLevel", "RiskScore"} \subseteq DOMAIN row
    /\ row["FinalRiskLevel"]
          = final_level(get(Series(row), "ML_Risk_Probability", 0), row["RiskScore"])

\* every row of the frame is reconciled
TiersReconciled ==
    /\ HasCol("FinalRiskLevel") /\ HasCol("RiskScore")
    /\ \A i \in Rows : RowReconciled(data.rows[i])

\* C29 as stated, for every list generate_recommendations or run() has just
\* written: where the ML note is present the final tier of the record is
\* High Risk and both urgent messages stand before it.
C29_NoteImpliesHigh ==
    Recommended =>
        \A i \in Rows :
            NoteOnlyOnUrgentHigh(data.rows[i]["Recommendations"],
                                 data.rows[i]["FinalRiskLevel"])

\* C29 (amended): in every predict_single result, and in every list
\* generate_recommendations or run() has just written for a row whose final
\* tier is the reconciliation of its current probability and rule score
\* (whatever the other rows hold), the
\* ML note is present only with final tier High Risk and after both urgent
\* messages, and a probability in (0.65, 0.7] gives High Risk without note.
C29_NoteImpliesHighWhenReconciled ==
    /\ Recommended =>
          \A i \in Rows :
              LET row == data.rows[i] IN
              RowReconciled(row) =>
                  /\ NoteOnlyOnUrgentHigh(row["Recommendations"],
                                          row["FinalRiskLevel"])
                  /\ SilentEscalation(get(Series(row), "ML_Risk_Probability", 0),
                                      row["Recommendations"], row["FinalRiskLevel"])
    /\ RunCompleted => TiersReconciled
    /\ PredictedSingle =>
          /\ NoteOnlyOnUrgentHigh(last.res.recommendations, last.res.final_level)
          /\ SilentEscalation(last.res.ml_probability, last.res.recommendations,
                              last.res.final_level)

\* a completed run with a row of rule score below 8 at probability exactly
\* 0.7, High Risk without the note, and a row above 0.7 whose list holds the
\* two urgent messages and then the note
C29_Witness ==
    /\ RunCompleted /\ HasCol("Recommendations")
    /\ \E i, j \in Rows :
          /\ data.rows[i]["ML_Risk_Probability"] = 7000
          /\ data.rows[i]["RiskScore"] < 8
          /\ data.rows[i]["FinalRiskLevel"] = High
          /\ NoNote(data.rows[i]["Recommendations"])
          /\ data.rows[j]["ML_Risk_Probability"] > 7000
          /\ ~NoNote(data.rows[j]["Recommendations"])
          /\ NoteOnlyOnUrgentHigh(data.rows[j]["Recommendations"], High)

----------------------------------------------------------------------------
(* Claims on the availability of the queries *)

\* C30: in every state reachable by load_data, stage and query calls,
\* get_summary_statistics and get_at_risk_students complete without error:
\* an empty mapping and an empty frame when no dataset is loaded, tier-based
\* results otherwise, also when the dataset is loaded and hybrid_decision
\* has not run yet.
C30_QueriesComplete ==
    /\ last.op \in {"get_summary_statistics", "get_at_risk_students"} =>
          last.outcome = "ok"
    /\ (Queried("get_summary_statistics") /\ data.none) => last.res.empty
    /\ (Queried("get_at_risk_students") /\ data.none) => last.res.index = <<>>

====
